---- MODULE Spec2Model ----
(***************************************************************************)
(* The HCE IPA transcriber: the resolution engine of ipa_converter.py and  *)
(* the learning ledger / override store of app.py, app_enhanced.py and     *)
(* app_hce.py, as one state machine.                                       *)
(*                                                                         *)
(* Text is modelled as sequences of one-character strings.  IPA code       *)
(* points are written in X-SAMPA, one string per code point:               *)
(*   "{" ae-ligature, ":" length mark, "@" schwa, "A" script a,            *)
(*   "I" small capital i, "U" upsilon, "}" barred u, "3" reversed epsilon, *)
(*   "O" open o, "E" epsilon, "D" eth, "T" theta, "S" esh, "N" eng,        *)
(*   "_^" the combining non-syllabic mark.                                 *)
(***************************************************************************)
EXTENDS Integers, Sequences, FiniteSets, TLC

\* ------------------------------------------------------------------ bounds
\* Most lines the learning ledger (auto_learning_log.jsonl) may hold.
MaxLedger == 3
\* Most lines the corrections log (corrections_log.jsonl) may hold.
MaxLog == 1
\* Most steps (script runs, restarts, damage to the ledger) of one behaviour.
MaxSteps == 4
\* Most entries custom_dict.json holds when a session starts.
MaxCustom == 2

\* Events of the word in the ledger before the user starts to repeat a
\* selection.
MaxPrior == 2

\* ------------------------------------------------------- Python's values
\* None, as a value no string equals.
NONE == <<"None">>
\* Python truthiness of an optional string: None and "" are falsy.
Truthy(s) == s # NONE /\ s # <<>>

\* ------------------------------------------------------ string helpers
\* s[i..] starts with the non-empty sequence p at index i.
StartsAt(s, p, i) ==
    /\ i + Len(p) - 1 <= Len(s)
    /\ \A k \in 1..Len(p) : s[i + k - 1] = p[k]

\* str.replace(old, new): every non-overlapping occurrence, left to right.
RECURSIVE ReplaceFrom(_, _, _, _)
ReplaceFrom(s, old, new, i) ==
    IF i > Len(s) THEN <<>>
    ELSE IF StartsAt(s, old, i)
         THEN new \o ReplaceFrom(s, old, new, i + Len(old))
         ELSE <<s[i]>> \o ReplaceFrom(s, old, new, i + 1)

Replace(s, old, new) == ReplaceFrom(s, old, new, 1)

\* str.lower() on the letters the model uses.
LowerChar(c) ==
    CASE c = "D" -> "d"
      [] c = "T" -> "t"
      [] c = "C" -> "c"
      [] c = "O" -> "o"
      [] OTHER -> c

Lower(s) == [i \in 1..Len(s) |-> LowerChar(s[i])]

\* The characters str.strip(".,!?;:") removes from both ends.
StripChars == {".", ",", "!", "?", ";", ":"}

RECURSIVE LStrip(_)
LStrip(s) ==
    IF s # <<>> /\ Head(s) \in StripChars THEN LStrip(Tail(s)) ELSE s

RECURSIVE RStrip(_)
RStrip(s) ==
    IF s # <<>> /\ s[Len(s)] \in StripChars
    THEN RStrip(SubSeq(s, 1, Len(s) - 1))
    ELSE s

Strip(s) == RStrip(LStrip(s))

AlnumChars ==
    {"a", "c", "d", "e", "h", "m", "n", "o", "r", "s", "t", "C", "D", "T"}

\* str.isalnum(): non-empty and every character alphanumeric.
IsAlnum(s) == s # <<>> /\ \A i \in 1..Len(s) : s[i] \in AlnumChars

\* ------------------------------------------------------- ipa_converter.py
clean_word(word) == Strip(Lower(word))

\* The built-in HCE_MAP, in dict insertion order.
HCE_MAP ==
    << << <<"I", "@">>, <<"I", "@", "_^">> >>,
       << <<"U", "@">>, <<"U", "@", "_^">> >>,
       << <<"e", "@">>, <<"e", "@", "_^">> >>,
       << <<"{">>,      <<"{", ":">> >>,
       << <<"}">>,      <<"}", ":">> >>,
       << <<"3", ":">>, <<"3", ":">> >>,
       << <<"@">>,      <<"@", ":">> >>,
       << <<"@", "}">>, <<"@", "U">> >>,
       << <<"{", "I">>, <<"{", "I">> >>,
       << <<"A", "e">>, <<"A", "I">> >>,
       << <<"A">>,      <<"A", ":">> >>,
       << <<"o", ":">>, <<"o", ":">> >>,
       << <<"i", ":">>, <<"i", ":">> >>,
       << <<"u", ":">>, <<"u", ":">> >>,
       << <<"O", ":">>, <<"o", ":">> >>,
       << <<"E">>,      <<"e">> >>,
       << <<"O">>,      <<"O">> >> >>

\* for standard, hce in HCE_MAP.items(): s = s.replace(standard, hce)
RECURSIVE ApplyHCEFrom(_, _)
ApplyHCEFrom(s, k) ==
    IF k > Len(HCE_MAP) THEN s
    ELSE ApplyHCEFrom(Replace(s, HCE_MAP[k][1], HCE_MAP[k][2]), k + 1)

ApplyHCE(s) == ApplyHCEFrom(s, 1)

\* Entries of fallback_mappings for the words the model's texts use.
FallbackWords == {<<"d", "a", "n", "c", "e">>, <<"c", "a", "t">>, <<"t", "h", "e">>, <<"c", "a", "r">>, <<"n", "e", "a", "r">>, <<"c", "a", "r", "e">>}

fallback_mappings(w) ==
    CASE w = <<"d", "a", "n", "c", "e">> ->
             << <<"d", "{", ":", "n", "s">>, <<"d", "A", ":", "n", "s">> >>
      [] w = <<"c", "a", "t">> -> << <<"k", "{", "t">> >>
      [] w = <<"t", "h", "e">> -> << <<"D", "@">>, <<"D", "i">> >>
      [] w = <<"c", "a", "r">> -> << <<"k", "A", ":">> >>
      [] w = <<"n", "e", "a", "r">> -> << <<"n", "I", "@">> >>
      [] w = <<"c", "a", "r", "e">> -> << <<"k", "e", "@">> >>

\* The ordered letter-pattern replacements of the unknown-word heuristic.
BasicPatterns ==
    << << <<"t", "h">>, <<"T">> >>,
       << <<"s", "h">>, <<"S">> >>,
       << <<"c", "h">>, <<"t", "S">> >>,
       << <<"n", "g">>, <<"N">> >>,
       << <<"o", "o">>, <<"u", ":">> >>,
       << <<"e", "e">>, <<"i", ":">> >>,
       << <<"a", "y">>, <<"e", "I">> >>,
       << <<"o", "w">>, <<"a", "U">> >> >>

RECURSIVE BasicFrom(_, _)
BasicFrom(s, k) ==
    IF k > Len(BasicPatterns) THEN s
    ELSE BasicFrom(Replace(s, BasicPatterns[k][1], BasicPatterns[k][2]), k + 1)

get_ipa_fallback(word) ==
    LET word_lower == Strip(Lower(word))
    IN  IF word_lower \in FallbackWords
        THEN fallback_mappings(word_lower)
        ELSE << BasicFrom(word_lower, 1) >>

\* What espeak-ng prints for a word when it is installed and succeeds.
EspeakOutput(w) ==
    CASE w = <<"d", "a", "n", "c", "e">> -> <<"d", "_", "{", ":", "n", "s">>
      [] w = <<"c", "a", "t">> -> <<"k", "_", "{", "t">>
      [] w = <<"s", "a", "t">> -> <<"s", "_", "{", "t">>
      [] w = <<"t", "h", "e">> -> <<"D", "_", "@">>
      [] w = <<"c", "a", "r">> -> <<"k", "_", "A", ":">>
      [] w = <<"n", "e", "a", "r">> -> <<"n", "_", "I", "@">>
      [] w = <<"c", "a", "r", "e">> -> <<"k", "_", "e", "@">>
      [] OTHER -> w

\* How one run of espeak-ng ends: it prints its output and exits 0, it is
\* not installed, subprocess.run raises TimeoutExpired after 10 s, it exits
\* non-zero, or it exits 0 having printed nothing.
EspeakRuns == {"ok", "missing", "timeout", "nonzero", "empty"}

\* A call that takes the output whatever the exit code.
get_ipa_espeak_unchecked(text, run) ==
    CASE run \in {"ok", "nonzero"} -> EspeakOutput(text)
      [] run = "empty" -> <<>>
      [] OTHER -> NONE

\* get_ipa_espeak: None when espeak-ng is not installed, when subprocess.run
\* raises (every Exception is caught) and when the exit code is not 0;
\* otherwise the stripped output, which may be "".
get_ipa_espeak(text, run) ==
    CASE run = "ok" -> EspeakOutput(text)
      [] run = "empty" -> <<>>
      [] OTHER -> NONE

InSeq(x, seq) == \E i \in 1..Len(seq) : seq[i] = x

\* The loop without its "not in ipa_options" test.
RECURSIVE AddFallbackAll(_, _, _)
AddFallbackAll(ipa_options, fallback_options, k) ==
    IF k > Len(fallback_options) THEN ipa_options
    ELSE AddFallbackAll(Append(ipa_options, ApplyHCE(fallback_options[k])),
                        fallback_options, k + 1)

\* The loop over fallback_options: map each, append if not yet listed.
RECURSIVE AddFallback(_, _, _)
AddFallback(ipa_options, fallback_options, k) ==
    IF k > Len(fallback_options) THEN ipa_options
    ELSE LET option == ApplyHCE(fallback_options[k])
         IN  AddFallback(IF InSeq(option, ipa_options) THEN ipa_options
                         ELSE Append(ipa_options, option),
                         fallback_options, k + 1)

\* One iteration of process_text's loop: the result dict for one token.
\* overrides is the module-level OVERRIDE_DICT.  has_override FALSE stands
\* for the key being absent; correction, last_selection and last_correction
\* are the keys the UI adds later.
ProcessWord(word, overrides, run) ==
    LET clean == clean_word(word)
        base == [original |-> word, clean |-> clean, correction |-> NONE,
                 last_selection |-> NONE, last_correction |-> NONE]
    IN  IF clean \in DOMAIN overrides
        THEN base @@ [ipa_options |-> <<overrides[clean]>>,
                      selected |-> overrides[clean], has_override |-> TRUE]
        ELSE IF ~IsAlnum(Replace(clean, <<"'">>, <<>>))
        THEN base @@ [ipa_options |-> <<word>>, selected |-> word,
                      has_override |-> FALSE]
        ELSE LET espeak_result == get_ipa_espeak(clean, run)
                 fromEspeak ==
                     IF Truthy(espeak_result)
                     THEN << ApplyHCE(Replace(Replace(espeak_result, <<"_">>, <<>>),
                                              <<" ">>, <<>>)) >>
                     ELSE <<>>
                 withFallback == AddFallback(fromEspeak, get_ipa_fallback(clean), 1)
                 ipa_options == IF withFallback = <<>> THEN <<clean>> ELSE withFallback
             IN  base @@ [ipa_options |-> ipa_options, selected |-> ipa_options[1],
                          has_override |-> FALSE]

\* A resolution that preselects each token's last candidate.
process_text_last(words, overrides, run) ==
    [i \in 1..Len(words) |->
        [ProcessWord(words[i], overrides, run) EXCEPT
            !.selected = ProcessWord(words[i], overrides, run).ipa_options[
                             Len(ProcessWord(words[i], overrides, run).ipa_options)]]]

\* process_text: text.split() is given as the sequence of tokens.
process_text(words, overrides, run) ==
    [i \in 1..Len(words) |-> ProcessWord(words[i], overrides, run)]

\* ------------------------------------------------ the three app variants
Variants == {"app", "enhanced", "hce"}

InteractionTypes == {"selection", "manual_correction", "accept_all"}

\* Settings slider: thresholds in tenths (min_value .. max_value, step 0.1).
SliderRange(variant) == IF variant = "hce" THEN 3..10 ELSE 5..10

\* st.session_state.confidence_threshold when the session starts, in tenths.
DefaultThreshold(variant) == IF variant = "hce" THEN 5 ELSE 7

\* The count a chosen IPA needs before it is promoted.
MinRepeats(variant) == IF variant = "hce" THEN 1 ELSE 2

\* confidence_multiplier, in tenths.
Multiplier(variant, interaction_type) ==
    IF variant = "hce"
    THEN CASE interaction_type = "manual_correction" -> 20
           [] interaction_type = "accept_all" -> 15
           [] OTHER -> 10
    ELSE CASE interaction_type = "accept_all" -> 12
           [] interaction_type = "manual_correction" -> 15
           [] OTHER -> 10

\* ------------------------------------------------------ the ledger file
\* A line json.loads rejects.
CorruptLine ==
    [parses |-> FALSE, word |-> <<>>, original_word |-> <<>>, ipa_choice |-> <<>>,
     interaction_type |-> "", confidence |-> [num |-> 0, den |-> 1, below |-> FALSE],
     selection_count |-> 0, total_word_selections |-> 0]

\* Index of the first line json.loads rejects, Len + 1 when there is none.
FirstCorrupt(ledger) ==
    IF \E i \in 1..Len(ledger) : ~ledger[i].parses
    THEN CHOOSE i \in 1..Len(ledger) :
             /\ ~ledger[i].parses
             /\ \A j \in 1..(i - 1) : ledger[j].parses
    ELSE Len(ledger) + 1

\* The replay loop sits inside one try/except: the first bad line ends it,
\* and the counts gathered so far are kept.
Replayed(ledger) == SubSeq(ledger, 1, FirstCorrupt(ledger) - 1)

\* auto_data[word][ipa]['count'] after the replay (0 when the key is new).
ReplayCount(ledger, word, ipa) ==
    Cardinality({i \in 1..Len(Replayed(ledger)) :
                    ledger[i].word = word /\ ledger[i].ipa_choice = ipa})

\* A replay that sums the counts of every word, not of this word alone.
ReplayTotalAll(ledger, word) == Len(Replayed(ledger))

\* sum of the counts of auto_data[word] after the replay.
ReplayTotal(ledger, word) ==
    Cardinality({i \in 1..Len(Replayed(ledger)) : ledger[i].word = word})

\* ------------------------------------------------------------ confidence
\* IEEE doubles: (count / total) * multiplier lands one ulp below the exact
\* tenth in these cases (count, total, multiplier in tenths), totals up to 6.
RoundsBelow(count, total, mult) ==
    <<count, total, mult>> \in
        {<<1, 3, 12>>, <<2, 3, 12>>, <<3, 4, 12>>, <<3, 5, 15>>,
         <<1, 6, 12>>, <<2, 6, 12>>, <<4, 6, 12>>}

\* count / total_selections as a fraction.
BaseConfidence(count, total) == [num |-> count, den |-> total]

\* The product without the cap at 1.0.
FinalConfidenceUncapped(count, total, mult) ==
    [num |-> count * mult, den |-> total * 10, below |-> RoundsBelow(count, total, mult)]

\* min(1.0, base_confidence * confidence_multiplier)
FinalConfidence(count, total, mult) ==
    IF count * mult >= total * 10
    THEN [num |-> 1, den |-> 1, below |-> FALSE]
    ELSE [num |-> count * mult, den |-> total * 10,
          below |-> RoundsBelow(count, total, mult)]

\* A comparison that asks for more than the threshold.
AtLeastStrict(conf, threshold) == conf.num * 10 > threshold * conf.den

\* confidence >= threshold, the threshold in tenths.
AtLeast(conf, threshold) ==
    \/ conf.num * 10 > threshold * conf.den
    \/ conf.num * 10 = threshold * conf.den /\ ~conf.below

\* ------------------------------------------------- override_dict.json
\* The file's dict as a function; an absent file reads as the empty dict.
EmptyDict == <<>>

\* An update that starts from an empty dict instead of the file's content.
DictSetAlone(d, k, v) == [x \in {k} |-> v]

\* override_dict = json.load(f); override_dict[k] = v
DictSet(d, k, v) == [x \in DOMAIN d \cup {k} |-> IF x = k THEN v ELSE d[x]]

\* ------------------------------------------- auto_learn_from_selection
\* The condition of the promotion branch.
ShouldPromote(variant, threshold, conf, count, interaction_type) ==
    \/ AtLeast(conf, threshold) /\ count >= MinRepeats(variant)
    \/ variant = "hce" /\ interaction_type \in {"manual_correction", "accept_all"}

\* Whether this variant catches PermissionError around its file writes.
GuardsWrites(variant) == variant = "app"

\* log_entry, the line the call appends to the ledger.  app_hce.py's line
\* has no total_word_selections key: 0 stands for its absence.
LogEntry(variant, word_data, selected_option, interaction_type, confidence, count, total_selections) ==
    [parses |-> TRUE, word |-> word_data.clean, original_word |-> word_data.original,
     ipa_choice |-> selected_option, interaction_type |-> interaction_type,
     confidence |-> confidence, selection_count |-> count,
     total_word_selections |-> IF variant = "hce" THEN 0 ELSE total_selections]

\* What the model remembers of one call: its inputs, what it computed, and
\* how it ended (result is "True", "False" or "raised").
CallRecord(word_data, selected_option, interaction_type, confidence, count, total_selections, logged, wrote, warned, result) ==
    [word |-> word_data.clean, ipa |-> selected_option, type |-> interaction_type,
     count |-> count, total |-> total_selections,
     base |-> BaseConfidence(count, total_selections), confidence |-> confidence,
     logged |-> logged, wrote |-> wrote, warned |-> warned, result |-> result]

\* The call from the ledger append on, the counts and the confidence known.
LogAndPromote(variant, threshold, st, word_data, selected_option, interaction_type, denyLedger, denyStore, count, total_selections, confidence) ==
    IF denyLedger /\ ~GuardsWrites(variant)
    THEN [st EXCEPT !.raised = TRUE,
                    !.calls = Append(@, CallRecord(word_data, selected_option,
                                  interaction_type, confidence, count,
                                  total_selections, FALSE, FALSE, FALSE, "raised"))]
    ELSE IF ~ShouldPromote(variant, threshold, confidence, count, interaction_type)
    THEN [st EXCEPT !.ledger = IF denyLedger THEN @
                               ELSE Append(@, LogEntry(variant, word_data,
                                        selected_option, interaction_type,
                                        confidence, count, total_selections)),
                    !.calls = Append(@, CallRecord(word_data, selected_option,
                                  interaction_type, confidence, count,
                                  total_selections, ~denyLedger, FALSE, denyLedger,
                                  "False"))]
    ELSE IF denyStore /\ ~GuardsWrites(variant)
    THEN [st EXCEPT !.ledger = Append(@, LogEntry(variant, word_data,
                                        selected_option, interaction_type,
                                        confidence, count, total_selections)),
                    !.raised = TRUE,
                    !.calls = Append(@, CallRecord(word_data, selected_option,
                                  interaction_type, confidence, count,
                                  total_selections, TRUE, FALSE, FALSE, "raised"))]
    ELSE [st EXCEPT !.ledger = IF denyLedger THEN @
                               ELSE Append(@, LogEntry(variant, word_data,
                                        selected_option, interaction_type,
                                        confidence, count, total_selections)),
                    !.store = IF denyStore THEN @
                              ELSE DictSet(@, word_data.clean, selected_option),
                    !.calls = Append(@, CallRecord(word_data, selected_option,
                                  interaction_type, confidence, count,
                                  total_selections, ~denyLedger, ~denyStore,
                                  denyLedger \/ denyStore, "True"))]

\* The call from the confidence on, the replayed counts known.
LearnCounted(variant, threshold, st, word_data, selected_option, interaction_type, denyLedger, denyStore, count, total_selections) ==
    LogAndPromote(variant, threshold, st, word_data, selected_option,
                  interaction_type, denyLedger, denyStore, count, total_selections,
                  FinalConfidence(count, total_selections,
                                  Multiplier(variant, interaction_type)))

\* One call.  st is the files and session of the running script:
\* [ledger, store, log, wr, calls, raised].  denyLedger / denyStore: the
\* operating system refuses to open that file for writing.  A script that
\* has raised runs no further call.
auto_learn_from_selection(variant, threshold, st, word_data, selected_option, interaction_type, denyLedger, denyStore) ==
    IF st.raised THEN st
    ELSE LearnCounted(variant, threshold, st, word_data, selected_option,
                      interaction_type, denyLedger, denyStore,
                      ReplayCount(st.ledger, word_data.clean, selected_option) + 1,
                      ReplayTotal(st.ledger, word_data.clean) + 1)

\* --------------------------------------------------------- overrides.py
\* ' '.join(tokens): the text the user typed, from its tokens.
RECURSIVE JoinFrom(_, _)
JoinFrom(tokens, i) ==
    IF i > Len(tokens) THEN <<>>
    ELSE IF i = Len(tokens) THEN tokens[i]
    ELSE tokens[i] \o <<" ">> \o JoinFrom(tokens, i + 1)

\* A choice that puts the selected value before the correction.
SentencePartSelected(result) ==
    IF Truthy(result.selected) THEN result.selected
    ELSE IF Truthy(result.correction) THEN result.correction
    ELSE result.ipa_options[1]

\* The string reconstruct_sentence takes for one token: the correction if
\* truthy, else the selected value if truthy, else ipa_options[0].
SentencePart(result) ==
    IF Truthy(result.correction) THEN result.correction
    ELSE IF Truthy(result.selected) THEN result.selected
    ELSE result.ipa_options[1]

\* reconstruct_sentence: ' '.join(ipa_parts).
reconstruct_sentence(results) ==
    JoinFrom([i \in 1..Len(results) |-> SentencePart(results[i])], 1)

\* A line of corrections_log.jsonl; NONE stands for a key the line lacks.
LogLine(type, text, word_clean, selected, manual_correction, final_choice) ==
    [type |-> type, text |-> text, word_clean |-> word_clean, selected |-> selected,
     manual_correction |-> manual_correction, final_choice |-> final_choice,
     correction |-> NONE]

\* The body of the loop of update_override_dict for one parsed line.
CorrectionsStep(corrections, data) ==
    IF data.type = <<"w", "o", "r", "d">>
    THEN LET word_clean == IF data.word_clean # NONE THEN data.word_clean
                           ELSE Lower(IF data.text # NONE THEN data.text ELSE <<>>)
         IN  IF Truthy(data.manual_correction)
             THEN DictSet(corrections, word_clean, data.manual_correction)
             ELSE IF Truthy(data.final_choice)
             THEN DictSet(corrections, word_clean, data.final_choice)
             ELSE IF Truthy(data.selected)
             THEN DictSet(corrections, word_clean, data.selected)
             ELSE corrections
    ELSE IF data.type # <<"s", "e", "n", "t", "e", "n", "c", "e">> /\ ~Truthy(data.type)
    THEN LET text == Lower(IF data.text # NONE THEN data.text ELSE <<>>)
         IN  IF Truthy(data.correction)
             THEN DictSet(corrections, text, data.correction)
             ELSE IF Truthy(data.final_choice)
             THEN DictSet(corrections, text, data.final_choice)
             ELSE IF Truthy(data.selected)
             THEN DictSet(corrections, text, data.selected)
             ELSE corrections
    ELSE corrections

RECURSIVE CorrectionsFrom(_, _, _)
CorrectionsFrom(log, corrections, i) ==
    IF i > Len(log) THEN corrections
    ELSE CorrectionsFrom(log, CorrectionsStep(corrections, log[i]), i + 1)

\* update_override_dict: override_dict.json is rewritten with the dict built
\* from corrections_log.jsonl alone ({} when the log is absent or empty).
\* Its open(..., "w") is unguarded.
update_override_dict(st, denyStore) ==
    IF st.raised THEN st
    ELSE IF denyStore THEN [st EXCEPT !.raised = TRUE]
    ELSE [st EXCEPT !.store = CorrectionsFrom(st.log, EmptyDict, 1)]

\* ------------------------------------------------------------ rendering
\* word_words: the tokens the page shows widgets for.
Rendered(word_data) == IsAlnum(Replace(word_data.original, <<"'">>, <<>>))

WordWords(wr) == {i \in 1..Len(wr) : Rendered(wr[i])}

HasRadio(word_data) == Rendered(word_data) /\ Len(word_data.ipa_options) > 1

\* word_data.get('correction') or word_data.get('selected')
FinalChoice(word_data) ==
    IF Truthy(word_data.correction) THEN word_data.correction ELSE word_data.selected

\* st with last_selection (last_correction) of token i set, unless the
\* call raised.
MarkSelection(st, i, value) ==
    IF st.raised THEN st ELSE [st EXCEPT !.wr[i].last_selection = value]

MarkCorrection(st, i, value) ==
    IF st.raised THEN st ELSE [st EXCEPT !.wr[i].last_correction = value]

\* app_hce.py, one pass of the word loop: a selection is learned when it
\* differs from last_selection ...
HceSelection(threshold, st, i, denyLedger, denyStore) ==
    IF HasRadio(st.wr[i]) /\ st.wr[i].last_selection # st.wr[i].selected
    THEN MarkSelection(
             auto_learn_from_selection("hce", threshold, st, st.wr[i],
                 st.wr[i].selected, "selection", denyLedger, denyStore),
             i, st.wr[i].selected)
    ELSE st

\* ... and a correction when it differs from last_correction.
HceCorrection(threshold, st, i, denyLedger, denyStore) ==
    IF ~st.raised /\ Truthy(st.wr[i].correction)
       /\ st.wr[i].last_correction # st.wr[i].correction
    THEN MarkCorrection(
             auto_learn_from_selection("hce", threshold, st, st.wr[i],
                 st.wr[i].correction, "manual_correction", denyLedger, denyStore),
             i, st.wr[i].correction)
    ELSE st

RenderWordHce(threshold, st, i, denyLedger, denyStore) ==
    HceCorrection(threshold, HceSelection(threshold, st, i, denyLedger, denyStore),
                  i, denyLedger, denyStore)

\* app_enhanced.py, one pass of the word loop: every shown radio ...
EnhancedSelection(threshold, st, i, denyLedger, denyStore) ==
    IF HasRadio(st.wr[i])
    THEN auto_learn_from_selection("enhanced", threshold, st, st.wr[i],
             st.wr[i].selected, "selection", denyLedger, denyStore)
    ELSE st

\* ... and every non-empty correction is learned on every run of the script.
EnhancedCorrection(threshold, st, i, denyLedger, denyStore) ==
    IF Truthy(st.wr[i].correction)
    THEN auto_learn_from_selection("enhanced", threshold, st, st.wr[i],
             st.wr[i].correction, "manual_correction", denyLedger, denyStore)
    ELSE st

RenderWordEnhanced(threshold, st, i, denyLedger, denyStore) ==
    EnhancedCorrection(threshold,
                       EnhancedSelection(threshold, st, i, denyLedger, denyStore),
                       i, denyLedger, denyStore)

\* The word loop from token i to token last.
RECURSIVE RenderFrom(_, _, _, _, _, _, _)
RenderFrom(variant, threshold, st, i, last, denyLedger, denyStore) ==
    IF i > last \/ st.raised THEN st
    ELSE IF ~Rendered(st.wr[i])
    THEN RenderFrom(variant, threshold, st, i + 1, last, denyLedger, denyStore)
    ELSE RenderFrom(variant, threshold,
                    IF variant = "hce"
                    THEN RenderWordHce(threshold, st, i, denyLedger, denyStore)
                    ELSE RenderWordEnhanced(threshold, st, i, denyLedger, denyStore),
                    i + 1, last, denyLedger, denyStore)

\* The word-by-word section of one run of the script.  app.py learns in its
\* widget callbacks, not here; app_enhanced.py has the layout for at most
\* three words only.
Render(variant, threshold, st, denyLedger, denyStore) ==
    IF variant = "app" THEN st
    ELSE IF variant = "enhanced" /\ Cardinality(WordWords(st.wr)) > 3 THEN st
    ELSE RenderFrom(variant, threshold, st, 1, Len(st.wr), denyLedger, denyStore)

\* The loop of the "Accept All & Learn" button.
RECURSIVE AcceptAllFrom(_, _, _, _, _, _)
AcceptAllFrom(variant, threshold, st, i, denyLedger, denyStore) ==
    IF i > Len(st.wr) \/ st.raised THEN st
    ELSE LET wd == st.wr[i]
         IN  AcceptAllFrom(variant, threshold,
                 IF Rendered(wd) /\ Truthy(FinalChoice(wd))
                 THEN auto_learn_from_selection(variant, threshold, st, wd,
                          FinalChoice(wd), "accept_all", denyLedger, denyStore)
                 ELSE st,
                 i + 1, denyLedger, denyStore)

\* The loop of the "Manual Save" button of app.py.
RECURSIVE ManualSaveFrom(_, _)
ManualSaveFrom(st, i) ==
    IF i > Len(st.wr) THEN st
    ELSE LET wd == st.wr[i]
             final_choice == FinalChoice(wd)
         IN  ManualSaveFrom(
                 IF Rendered(wd) /\ Truthy(final_choice)
                    /\ final_choice # wd.ipa_options[1]
                 THEN [st EXCEPT !.log = Append(@,
                          LogLine(<<"m", "a", "n", "u", "a", "l", "_", "s", "a", "v", "e">>,
                                  wd.original, wd.clean, wd.selected,
                                  wd.correction, final_choice))]
                 ELSE st,
                 i + 1)

\* force_save_to_override of app_hce.py; its write is unguarded.
force_save_to_override(st, word, ipa, denyStore) ==
    IF st.raised THEN st
    ELSE IF denyStore THEN [st EXCEPT !.raised = TRUE]
    ELSE [st EXCEPT !.store = DictSet(@, word, ipa)]

\* The force-save button of token i, pressed when the loop has drawn it.
ForceSaveWord(st, i, denyStore) ==
    force_save_to_override(st, st.wr[i].clean, FinalChoice(st.wr[i]), denyStore)

\* with open(LOG_FILE, "a") ...: unguarded in every variant.
AppendLog(st, line, denyLog) ==
    IF st.raised THEN st
    ELSE IF denyLog THEN [st EXCEPT !.raised = TRUE]
    ELSE [st EXCEPT !.log = Append(@, line)]

\* os.remove of the three files by the clear-all buttons.
ClearFiles(st) ==
    IF st.raised THEN st
    ELSE [st EXCEPT !.ledger = <<>>, !.store = EmptyDict, !.log = <<>>]

\* session_state.word_results = process_text(text)
Resolved(st, t, overrides, run) ==
    IF st.raised THEN st ELSE [st EXCEPT !.wr = process_text(t, overrides, run)]

\* ------------------------------------- app_hce.py's reverse transcriber
\* str.strip(): white space removed from both ends.
RECURSIVE WsStrip(_)
WsStrip(s) ==
    IF s # <<>> /\ Head(s) = " " THEN WsStrip(Tail(s))
    ELSE IF s # <<>> /\ s[Len(s)] = " " THEN WsStrip(SubSeq(s, 1, Len(s) - 1))
    ELSE s

\* The lines of cmudict-0.7b the model keeps, as (word, phonemes).
CmuLines ==
    << << <<"T", "O">>, << <<"T">>, <<"U", "W", "1">> >> >>,
       << <<"T", "O", "O">>, << <<"T">>, <<"U", "W", "1">> >> >> >>

\* arpa_to_ipa.get(p, p): a phoneme that carries a stress digit is not a
\* key and stays as it is.
ArpaToIpa(p) ==
    CASE p = <<"T">> -> <<"t">>
      [] p = <<"K">> -> <<"k">>
      [] p = <<"U", "W">> -> <<"u">>
      [] OTHER -> p

\* aus_mappings, in dict order.
AusMappings ==
    <<
       << <<"d", "a", "n", "c", "e">>, <<"d", "{", ":", "n", "s">> >>,
       << <<"c", "a", "s", "t", "l", "e">>, <<"k", "{", ":", "s", "@", "l">> >>,
       << <<"p", "a", "t", "h">>, <<"p", "A", ":", "T">> >>,
       << <<"b", "a", "t", "h">>, <<"b", "A", ":", "T">> >>,
       << <<"l", "a", "u", "g", "h">>, <<"l", "A", ":", "f">> >>,
       << <<"c", "h", "a", "n", "c", "e">>, <<"t", "S", "A", ":", "n", "s">> >>,
       << <<"p", "l", "a", "n", "t">>, <<"p", "l", "A", ":", "n", "t">> >>,
       << <<"g", "r", "a", "p", "h">>, <<"g", "r", "A", ":", "f">> >>,
       << <<"e", "x", "a", "m", "p", "l", "e">>, <<"I", "g", "z", "A", ":", "m", "p", "@", "l">> >> >>

\* ipa_to_word_dict before anything is loaded.
EmptyIndex == <<>>

\* An _add_mapping without its "not in" test.
_add_mapping_all(index, ipa, word, source, dialect, is_custom) ==
    LET entry == [word |-> word, dialect |-> dialect, source |-> source,
                  is_custom |-> is_custom]
    IN  [x \in DOMAIN index \cup {ipa} |->
            IF x = ipa
            THEN (IF ipa \in DOMAIN index THEN index[ipa] ELSE <<>>) \o <<entry>>
            ELSE index[x]]

\* _add_mapping: the entry is appended to the list of its IPA key unless an
\* equal entry is there.
_add_mapping(index, ipa, word, source, dialect, is_custom) ==
    LET entry == [word |-> word, dialect |-> dialect, source |-> source,
                  is_custom |-> is_custom]
    IN  IF ipa \notin DOMAIN index
        THEN [x \in DOMAIN index \cup {ipa} |-> IF x = ipa THEN <<entry>> ELSE index[x]]
        ELSE IF InSeq(entry, index[ipa]) THEN index
        ELSE [index EXCEPT ![ipa] = Append(@, entry)]

\* load_cmu_dict from line k on: the IPA is the converted phonemes joined
\* by spaces.
RECURSIVE load_cmu_dict(_, _)
load_cmu_dict(index, k) ==
    IF k > Len(CmuLines) THEN index
    ELSE load_cmu_dict(
             _add_mapping(index,
                 JoinFrom([n \in 1..Len(CmuLines[k][2]) |-> ArpaToIpa(CmuLines[k][2][n])], 1),
                 Lower(CmuLines[k][1]), "cmu", "us", FALSE),
             k + 1)

RECURSIVE load_aus_dict(_, _)
load_aus_dict(index, k) ==
    IF k > Len(AusMappings) THEN index
    ELSE load_aus_dict(_add_mapping(index, AusMappings[k][2], AusMappings[k][1],
                                    "aus_override", "au", FALSE),
                       k + 1)

\* load_custom_dict from entry k of custom_dict.json on.
RECURSIVE load_custom_dict(_, _, _)
load_custom_dict(index, custom_data, k) ==
    IF k > Len(custom_data) THEN index
    ELSE load_custom_dict(_add_mapping(index, custom_data[k].ipa, custom_data[k].word,
                                       "user", custom_data[k].dialect, TRUE),
                          custom_data, k + 1)

\* DialectAwareIPATranscriber(): the index of a new transcriber.  Neither
\* override_dict.json nor the ledger is read.
load_resources(custom_data) ==
    load_custom_dict(load_aus_dict(load_cmu_dict(EmptyIndex, 1), 1), custom_data, 1)

\* The second half of _add_mapping: the IPA entry is appended to the list
\* of its word in word_to_ipa_dict unless an equal entry is there.
_add_mapping_word(windex, ipa, word, source, dialect, is_custom) ==
    LET ipa_entry == [ipa |-> ipa, dialect |-> dialect, source |-> source,
                      is_custom |-> is_custom]
    IN  IF word \notin DOMAIN windex
        THEN [x \in DOMAIN windex \cup {word} |-> IF x = word THEN <<ipa_entry>> ELSE windex[x]]
        ELSE IF InSeq(ipa_entry, windex[word]) THEN windex
        ELSE [windex EXCEPT ![word] = Append(@, ipa_entry)]

\* The _add_mapping calls of load_resources, in order, as
\* (ipa, word, source, dialect, is_custom).
MappingCalls(custom_data) ==
    [k \in 1..Len(CmuLines) |->
        <<JoinFrom([n \in 1..Len(CmuLines[k][2]) |-> ArpaToIpa(CmuLines[k][2][n])], 1),
          Lower(CmuLines[k][1]), "cmu", "us", FALSE>>]
    \o [k \in 1..Len(AusMappings) |->
           <<AusMappings[k][2], AusMappings[k][1], "aus_override", "au", FALSE>>]
    \o [k \in 1..Len(custom_data) |->
           <<custom_data[k].ipa, custom_data[k].word, "user", custom_data[k].dialect, TRUE>>]

RECURSIVE AddWordsFrom(_, _, _)
AddWordsFrom(windex, calls, k) ==
    IF k > Len(calls) THEN windex
    ELSE AddWordsFrom(_add_mapping_word(windex, calls[k][1], calls[k][2], calls[k][3],
                                        calls[k][4], calls[k][5]),
                      calls, k + 1)

\* DialectAwareIPATranscriber(): word_to_ipa_dict of a new transcriber.
load_word_resources(custom_data) == AddWordsFrom(EmptyIndex, MappingCalls(custom_data), 1)

\* The sort key of find_word_candidates: True (1) for the preferred dialect.
DialectKey(entry, dialect_preference) ==
    IF entry.dialect = dialect_preference THEN 1 ELSE 0

\* One insertion of a stable sort with reverse=True: before the first
\* entry with a smaller key, after every entry with an equal one.
InsertByKey(sorted, entry, dialect_preference) ==
    LET smaller == {n \in 1..Len(sorted) :
                       DialectKey(sorted[n], dialect_preference)
                           < DialectKey(entry, dialect_preference)}
        at == IF smaller = {} THEN Len(sorted) + 1
              ELSE CHOOSE n \in smaller : \A m \in smaller : n <= m
    IN  SubSeq(sorted, 1, at - 1) \o <<entry>> \o SubSeq(sorted, at, Len(sorted))

\* sorted(candidates, key=lambda x: x['dialect'] == dialect_preference,
\*        reverse=True)
RECURSIVE SortedFrom(_, _, _, _)
SortedFrom(candidates, dialect_preference, k, sorted) ==
    IF k > Len(candidates) THEN sorted
    ELSE SortedFrom(candidates, dialect_preference, k + 1,
                    InsertByKey(sorted, candidates[k], dialect_preference))

\* None as a dialect preference (dialects are plain strings here).
NoDialect == "None"

\* A lookup that keeps the entries of the preferred dialect only.
find_word_candidates_filter(index, ipa_input, dialect_preference) ==
    LET candidates == IF ipa_input \in DOMAIN index THEN index[ipa_input] ELSE <<>>
    IN  IF dialect_preference # NoDialect
        THEN SelectSeq(candidates, LAMBDA e : e.dialect = dialect_preference)
        ELSE candidates

\* find_word_candidates; None is the only falsy preference the page passes.
find_word_candidates(index, ipa_input, dialect_preference) ==
    LET candidates == IF ipa_input \in DOMAIN index THEN index[ipa_input] ELSE <<>>
    IN  IF dialect_preference # NoDialect
        THEN SortedFrom(candidates, dialect_preference, 1, <<>>)
        ELSE candidates

\* dialect_map of the "IPA -> English" tab.
dialect_map(dialect_pref) ==
    CASE dialect_pref = "Australian (AU)" -> "au"
      [] dialect_pref = "American (US)" -> "us"
      [] OTHER -> NoDialect

\* The tab for one IPA segment typed into ipa_input ("" shows nothing): the
\* candidates found, and the at most ten of them the page lists.
Looked(index, ipa_input, dialect_pref) ==
    LET candidates ==
            IF ipa_input = <<>> THEN <<>>
            ELSE find_word_candidates(index, ipa_input, dialect_map(dialect_pref))
        filtered_candidates ==
            SelectSeq(candidates,
                      LAMBDA c : c.source \in {"cmu", "aus_override"} \/ c.is_custom)
    IN  [ipa_input |-> ipa_input, dialect_pref |-> dialect_pref,
         candidates |-> candidates,
         shown |-> SubSeq(filtered_candidates, 1,
                          IF Len(filtered_candidates) < 10 THEN Len(filtered_candidates)
                          ELSE 10)]

\* A teach_pronunciation that stores the word as it was typed.
teach_pronunciation_as_typed(custom_data, index, word, ipa, dialect) ==
    [custom_dict |-> Append(custom_data, [word |-> word, ipa |-> ipa, dialect |-> dialect]),
     ipa_to_word_dict |-> _add_mapping(index, ipa, word, "user", dialect, TRUE)]

\* teach_pronunciation: the entry is appended to custom_dict.json and added
\* to the index of the running transcriber.  (The timestamp is left out.)
teach_pronunciation(custom_data, index, word, ipa, dialect) ==
    [custom_dict |-> Append(custom_data, [word |-> WsStrip(Lower(word)), ipa |-> ipa,
                                          dialect |-> dialect]),
     ipa_to_word_dict |-> _add_mapping(index, ipa, WsStrip(Lower(word)), "user",
                                       dialect, TRUE)]

\* What teach_pronunciation does to word_to_ipa_dict.
teach_pronunciation_word(windex, word, ipa, dialect) ==
    _add_mapping_word(windex, ipa, WsStrip(Lower(word)), "user", dialect, TRUE)

\* ------------------------------------------------------------- the inputs
\* The texts a user types, as text.split() gives them.  The tokens of one
\* text are pairwise different, so list.index finds each token's own slot.
Texts ==
    { << <<"d", "a", "n", "c", "e">> >>,
      << <<"C", "a", "t">>, <<"d", "a", "n", "c", "e", ".">> >> }

\* The slider positions the model tries.
SliderStops == {5, 7, 10}

\* The file whose opening for writing the operating system refuses during
\* one script run, if any.
Denials == {"none", "ledger", "store", "log"}

\* The same for the script runs that never open corrections_log.jsonl.
WriteDenials == {"none", "ledger", "store"}

\* What a user types into a "Custom IPA" box.
ManualIpas == { <<"d", "a", ":", "n", "s">> }

\* ------------------------------------------------------------- the state
VARIABLES
    variant,        \* which script streamlit runs
    threshold,      \* st.session_state.confidence_threshold, in tenths
    text,           \* the text input widget (st.session_state.current_text)
    OVERRIDE_DICT,  \* ipa_converter.OVERRIDE_DICT, set when the module is imported
    ledger,         \* auto_learning_log.jsonl
    store,          \* override_dict.json
    log,            \* corrections_log.jsonl
    word_results,   \* st.session_state.word_results
    calls,          \* the auto_learn_from_selection calls of the last step
    raised,         \* the last script run ended in an uncaught exception
    op,             \* what the last step was
    steps,          \* how many steps the behaviour has taken
    core,           \* a direct use of the engine: the arguments and results
                    \* of process_text and reconstruct_sentence
    custom_dict,    \* custom_dict.json
    ipa_to_word_dict, \* st.session_state.reverse_transcriber.ipa_to_word_dict
    lookup,         \* the "IPA -> English" tab: its widgets and what it lists
    writers,        \* record calls of several server processes, step by step
    word_to_ipa_dict \* st.session_state.reverse_transcriber.word_to_ipa_dict

vars == <<variant, threshold, text, OVERRIDE_DICT, ledger, store, log,
          word_results, calls, raised, op, steps, core,
          custom_dict, ipa_to_word_dict, lookup, writers, word_to_ipa_dict>>

\* The engine before any direct call.
CoreIdle(words, overrides, run) ==
    [text |-> words, overrides |-> overrides, espeak |-> run,
     results |-> <<>>, resolved |-> FALSE, full_ipa |-> NONE]

Init ==
    /\ variant \in Variants
    /\ threshold = DefaultThreshold(variant)
    /\ text = <<>>
    /\ OVERRIDE_DICT = EmptyDict
    /\ ledger = <<>>
    /\ store = EmptyDict
    /\ log = <<>>
    /\ word_results = <<>>
    /\ calls = <<>>
    /\ raised = FALSE
    /\ op = "start"
    /\ steps = 0
    /\ core = CoreIdle(<<>>, EmptyDict, "missing")
    /\ custom_dict = <<>>
    /\ ipa_to_word_dict = IF variant = "hce" THEN load_resources(custom_dict) ELSE EmptyIndex
    /\ lookup = Looked(EmptyIndex, <<>>, "Any")
    /\ writers = <<>>
    /\ word_to_ipa_dict = IF variant = "hce" THEN load_word_resources(custom_dict) ELSE EmptyIndex

\* One more step of an app, named o.
Step(o) ==
    /\ steps < MaxSteps
    /\ steps' = steps + 1
    /\ op' = o
    /\ UNCHANGED <<core, writers>>

\* What a script run does to the reverse transcriber of app_hce.py: clear
\* says that custom_dict.json was removed, rebuild that a new transcriber
\* was made; a run that reaches the "IPA -> English" tab lists the
\* candidates of the segment in its input box.
Transcriber(rebuild, clear) ==
    /\ custom_dict' = IF clear THEN <<>> ELSE custom_dict
    /\ ipa_to_word_dict' = IF rebuild THEN load_resources(custom_dict') ELSE ipa_to_word_dict
    /\ word_to_ipa_dict' = IF rebuild THEN load_word_resources(custom_dict') ELSE word_to_ipa_dict
    /\ lookup' = IF raised' THEN [lookup EXCEPT !.candidates = <<>>, !.shown = <<>>]
                 ELSE Looked(ipa_to_word_dict', lookup.ipa_input, lookup.dialect_pref)

\* The files and session as a script run finds them.
Start == [ledger |-> ledger, store |-> store, log |-> log, wr |-> word_results,
          calls |-> <<>>, raised |-> FALSE]

\* What a script run leaves behind.
Finish(st) ==
    \E r \in {st} :
        /\ Len(r.ledger) <= MaxLedger
        /\ Len(r.log) <= MaxLog
        /\ ledger' = r.ledger
        /\ store' = r.store
        /\ log' = r.log
        /\ word_results' = r.wr
        /\ calls' = r.calls
        /\ raised' = r.raised

\* Index of the last token the page shows, 0 when it shows none.
LastRendered(wr) ==
    IF WordWords(wr) = {} THEN 0
    ELSE CHOOSE i \in WordWords(wr) : \A j \in WordWords(wr) : j <= i

\* app.py's on_change lambdas read word_idx when they run, after the loop
\* has ended: they look the widget value up under the key of the last
\* token shown, and get "" when that key does not exist.
CallbackValue(wr, i, value, radio) ==
    LET last == LastRendered(wr)
    IN  IF last = i THEN value
        ELSE IF wr[last].original = wr[i].original /\ (radio => HasRadio(wr[last]))
        THEN (IF radio THEN wr[last].selected
              ELSE IF wr[last].correction = NONE THEN <<>> ELSE wr[last].correction)
        ELSE <<>>

\* Whether the page shows the widgets of the word loop.
ShowsWords(v, wr) == v # "enhanced" \/ Cardinality(WordWords(wr)) <= 3

\* ------------------------------------------------------------ the actions
\* The user submits a new text: process_text, then the page is drawn.
EnterText(t, run, denyLedger, denyStore) ==
    /\ Step("enter_text")
    /\ t # text
    /\ text' = t
    /\ Finish(Render(variant, threshold,
                     [Start EXCEPT !.wr = process_text(t, OVERRIDE_DICT, run)],
                     denyLedger, denyStore))
    /\ UNCHANGED <<variant, threshold, OVERRIDE_DICT>>
    /\ Transcriber(FALSE, FALSE)

\* "Reset" (app.py) and "Clear" (app_hce.py): the page is drawn down to the
\* button, which empties word_results and current_text and reruns; the text
\* box still holds the text, so the rerun resolves it again.
Reset(run, denyLedger, denyStore) ==
    /\ Step("reset")
    /\ variant \in {"app", "hce"}
    /\ word_results # <<>>
    /\ Finish(Render(variant, threshold,
                     Resolved(Render(variant, threshold, Start, denyLedger, denyStore),
                              text, OVERRIDE_DICT, run),
                     denyLedger, denyStore))
    /\ UNCHANGED <<variant, threshold, text, OVERRIDE_DICT>>
    /\ Transcriber(FALSE, FALSE)

\* The user picks another radio option of token i.
ChooseOption(i, opt, denyLedger, denyStore) ==
    /\ Step("choose")
    /\ i \in 1..Len(word_results)
    /\ HasRadio(word_results[i])
    /\ ShowsWords(variant, word_results)
    /\ InSeq(opt, word_results[i].ipa_options)
    /\ opt # word_results[i].selected
    /\ LET learned ==
               IF variant = "app"
               THEN auto_learn_from_selection("app", threshold, Start, word_results[i],
                        CallbackValue(word_results, i, opt, TRUE), "selection",
                        denyLedger, denyStore)
               ELSE Start
           chosen == [learned EXCEPT !.wr[i].selected = opt]
       IN  Finish(Render(variant, threshold, chosen, denyLedger, denyStore))
    /\ UNCHANGED <<variant, threshold, text, OVERRIDE_DICT>>
    /\ Transcriber(FALSE, FALSE)

\* The user types into (or empties) the correction box of token i.
TypeCorrection(i, c, denyLedger, denyStore) ==
    /\ Step("type")
    /\ i \in 1..Len(word_results)
    /\ Rendered(word_results[i])
    /\ ShowsWords(variant, word_results)
    /\ c # (IF word_results[i].correction = NONE THEN <<>> ELSE word_results[i].correction)
    /\ LET value == CallbackValue(word_results, i, c, FALSE)
           learned ==
               IF variant = "app" /\ Truthy(value)
               THEN auto_learn_from_selection("app", threshold, Start, word_results[i],
                        value, "manual_correction", denyLedger, denyStore)
               ELSE Start
           typed == [learned EXCEPT !.wr[i].correction = IF c = <<>> THEN NONE ELSE c]
       IN  Finish(Render(variant, threshold, typed, denyLedger, denyStore))
    /\ UNCHANGED <<variant, threshold, text, OVERRIDE_DICT>>
    /\ Transcriber(FALSE, FALSE)

\* "Accept All & Learn": the page is drawn, then every shown token's final
\* choice is learned and one sentence line is logged.
AcceptAll(denyLedger, denyStore, denyLog) ==
    /\ Step("accept_all")
    /\ word_results # <<>>
    /\ LET drawn == Render(variant, threshold, Start, denyLedger, denyStore)
           learned == AcceptAllFrom(variant, threshold, drawn, 1, denyLedger, denyStore)
           sentence_log ==
               LogLine(IF variant = "hce" THEN NONE
                       ELSE <<"s", "e", "n", "t", "e", "n", "c", "e", "_",
                              "a", "c", "c", "e", "p", "t", "_", "a", "l", "l">>,
                       JoinFrom(text, 1), NONE, NONE, NONE, NONE)
       IN  Finish(AppendLog(learned, sentence_log, denyLog))
    /\ UNCHANGED <<variant, threshold, text, OVERRIDE_DICT>>
    /\ Transcriber(variant = "hce" /\ ~raised', FALSE)

\* "Manual Save" of app.py: log the changed words, then update_override_dict().
ManualSave(denyStore, denyLog) ==
    /\ Step("manual_save")
    /\ variant = "app"
    /\ word_results # <<>>
    /\ LET logged == ManualSaveFrom(Start, 1)
       IN  IF denyLog /\ logged.log # Start.log
           THEN Finish([Start EXCEPT !.raised = TRUE])
           ELSE Finish(update_override_dict(logged, denyStore))
    /\ UNCHANGED <<variant, threshold, text, OVERRIDE_DICT>>
    /\ Transcriber(FALSE, FALSE)

\* "Clear All Data" (app.py) / "Clear All Learning Data" (app_hce.py): the
\* page is drawn down to the button, the three files are removed, then the
\* script reruns.
ClearAll(denyLedger, denyStore) ==
    /\ Step("clear_all")
    /\ variant \in {"app", "hce"}
    /\ variant = "app" => word_results # <<>>
    /\ Finish(Render(variant, threshold,
                     ClearFiles(Render(variant, threshold, Start, denyLedger, denyStore)),
                     denyLedger, denyStore))
    /\ UNCHANGED <<variant, threshold, text, OVERRIDE_DICT>>
    /\ \E cleared \in {variant = "hce"
                         /\ ~Render(variant, threshold, Start, denyLedger, denyStore).raised} :
           Transcriber(cleared, cleared)

\* The force-save button of token i in app_hce.py: the loop has reached
\* token i, the pair is saved, and st.rerun() draws the page again.
ForceSave(i, denyLedger, denyStore) ==
    /\ Step("force_save")
    /\ variant = "hce"
    /\ i \in 1..Len(word_results)
    /\ Rendered(word_results[i])
    /\ Truthy(FinalChoice(word_results[i]))
    /\ Finish(Render("hce", threshold,
                     ForceSaveWord(RenderFrom("hce", threshold, Start, 1, i,
                                              denyLedger, denyStore),
                                   i, denyStore),
                     denyLedger, denyStore))
    /\ UNCHANGED <<variant, threshold, text, OVERRIDE_DICT>>
    /\ Transcriber(FALSE, FALSE)

\* The user moves the threshold slider; the script reruns.
SetThreshold(t, denyLedger, denyStore) ==
    /\ Step("threshold")
    /\ t \in SliderRange(variant) \cap SliderStops
    /\ t # threshold
    /\ threshold' = t
    /\ Finish(Render(variant, t, Start, denyLedger, denyStore))
    /\ UNCHANGED <<variant, text, OVERRIDE_DICT>>
    /\ Transcriber(FALSE, FALSE)

\* The server process is started again, running the same script: ipa_converter is
\* imported, which loads OVERRIDE_DICT from override_dict.json, and the
\* session starts empty.
Restart ==
    /\ Step("restart")
    /\ threshold' = DefaultThreshold(variant)
    /\ text' = <<>>
    /\ OVERRIDE_DICT' = store
    /\ word_results' = <<>>
    /\ calls' = <<>>
    /\ raised' = FALSE
    /\ ipa_to_word_dict' = IF variant = "hce" THEN load_resources(custom_dict)
                           ELSE ipa_to_word_dict
    /\ word_to_ipa_dict' = IF variant = "hce" THEN load_word_resources(custom_dict)
                           ELSE word_to_ipa_dict
    /\ lookup' = Looked(EmptyIndex, <<>>, "Any")
    /\ UNCHANGED <<variant, ledger, store, log, custom_dict>>

\* A line of the ledger is damaged outside the program (a torn append).
CorruptLedger ==
    /\ Step("corrupt")
    /\ Len(ledger) < MaxLedger
    /\ \A k \in 1..Len(ledger) : ledger[k].parses
    /\ ledger' = Append(ledger, CorruptLine)
    /\ calls' = <<>>
    /\ UNCHANGED <<variant, threshold, text, OVERRIDE_DICT, store, log,
                   word_results, raised, custom_dict, ipa_to_word_dict, lookup,
                   word_to_ipa_dict>>

Next ==
    \/ \E t \in Texts, e \in {"ok", "missing"}, d \in WriteDenials :
           EnterText(t, e, d = "ledger", d = "store")
    \/ \E e \in {"ok", "missing"}, d \in WriteDenials : Reset(e, d = "ledger", d = "store")
    \/ \E i \in 1..Len(word_results), d \in WriteDenials :
           \E opt \in {word_results[i].ipa_options[k] :
                          k \in 1..Len(word_results[i].ipa_options)} :
               ChooseOption(i, opt, d = "ledger", d = "store")
    \/ \E i \in 1..Len(word_results), c \in ManualIpas \cup {<<>>}, d \in WriteDenials :
           TypeCorrection(i, c, d = "ledger", d = "store")
    \/ \E d \in Denials : AcceptAll(d = "ledger", d = "store", d = "log")
    \/ \E d \in Denials \ {"ledger"} : ManualSave(d = "store", d = "log")
    \/ \E d \in WriteDenials : ClearAll(d = "ledger", d = "store")
    \/ \E i \in 1..Len(word_results), d \in WriteDenials :
           ForceSave(i, d = "ledger", d = "store")
    \/ \E t \in SliderStops, d \in WriteDenials : SetThreshold(t, d = "ledger", d = "store")
    \/ Restart
    \/ CorruptLedger

Spec == Init /\ [][Next]_vars

\* ------------------------------------- the reverse lookup of app_hce.py
\* What a user teaches: word, IPA, dialect, as typed and selected.
TeachInputs ==
    { << <<"C", "a", "t", " ">>, <<"k", "{", ":", "t">>, "us" >>,
      << <<"c", "a", "t">>, <<"k", "{", ":", "t">>, "au" >>,
      << <<"k", "a", "t">>, <<"k", "{", ":", "t">>, "us" >> }

\* custom_dict.json as earlier sessions of teaching left it.
TaughtBefore ==
    {<<>>} \cup
    UNION {[1..n -> {teach_pronunciation(<<>>, EmptyIndex, t[1], t[2], t[3]).custom_dict[1] :
                        t \in TeachInputs}] : n \in 1..MaxCustom}

\* The IPA segments a user looks up.
LookupIpas == { <<"k", "{", ":", "t">>, <<"d", "{", ":", "n", "s">> }

\* The options of the "Dialect preference" select box.
DialectPrefs == {"Any", "Australian (AU)", "American (US)"}

ReverseInit ==
    /\ variant = "hce"
    /\ threshold = DefaultThreshold(variant)
    /\ text = <<>>
    /\ OVERRIDE_DICT = EmptyDict
    /\ ledger = <<>>
    /\ store = EmptyDict
    /\ log = <<>>
    /\ word_results = <<>>
    /\ calls = <<>>
    /\ raised = FALSE
    /\ op = "start"
    /\ steps = 0
    /\ core = CoreIdle(<<>>, EmptyDict, "missing")
    /\ custom_dict \in TaughtBefore
    /\ ipa_to_word_dict = load_resources(custom_dict)
    /\ lookup = Looked(EmptyIndex, <<>>, "Any")
    /\ writers = <<>>
    /\ word_to_ipa_dict = IF variant = "hce" THEN load_word_resources(custom_dict) ELSE EmptyIndex

\* The user types an IPA segment or changes the dialect preference; the
\* script reruns and the tab lists the candidates.
LookUp(ipa_input, dialect_pref, denyLedger, denyStore) ==
    /\ Step("lookup")
    /\ variant = "hce"
    /\ <<ipa_input, dialect_pref>> # <<lookup.ipa_input, lookup.dialect_pref>>
    /\ Finish(Render(variant, threshold, Start, denyLedger, denyStore))
    /\ lookup' = IF raised'
                 THEN [ipa_input |-> ipa_input, dialect_pref |-> dialect_pref,
                       candidates |-> <<>>, shown |-> <<>>]
                 ELSE Looked(ipa_to_word_dict, ipa_input, dialect_pref)
    /\ UNCHANGED <<variant, threshold, text, OVERRIDE_DICT, custom_dict, ipa_to_word_dict,
                   word_to_ipa_dict>>

\* "Teach Pronunciation": the page is drawn down to the button,
\* teach_pronunciation runs, and st.rerun() draws the page again.
Teach(word, ipa, dialect, denyLedger, denyStore) ==
    /\ Step("teach")
    /\ variant = "hce"
    /\ Len(custom_dict) < MaxCustom + 1
    /\ word # <<>> /\ ipa # <<>>
    /\ \E drawn \in {Render(variant, threshold, Start, denyLedger, denyStore)} :
           /\ Finish(Render(variant, threshold, drawn, denyLedger, denyStore))
           /\ \E taught \in {IF drawn.raised
                               THEN [custom_dict |-> custom_dict,
                                     ipa_to_word_dict |-> ipa_to_word_dict]
                               ELSE teach_pronunciation(custom_dict, ipa_to_word_dict,
                                                        word, ipa, dialect)} :
                  /\ custom_dict' = taught.custom_dict
                  /\ ipa_to_word_dict' = taught.ipa_to_word_dict
           /\ word_to_ipa_dict' = IF drawn.raised THEN word_to_ipa_dict
                                  ELSE teach_pronunciation_word(word_to_ipa_dict, word, ipa, dialect)
    /\ lookup' = IF raised' THEN [lookup EXCEPT !.candidates = <<>>, !.shown = <<>>]
                 ELSE Looked(ipa_to_word_dict', lookup.ipa_input, lookup.dialect_pref)
    /\ UNCHANGED <<variant, threshold, text, OVERRIDE_DICT>>

\* "Refresh Pronunciation Data" in the sidebar: a new transcriber, then
\* st.rerun().
Refresh(denyLedger, denyStore) ==
    /\ Step("refresh")
    /\ variant = "hce"
    /\ Finish(Render(variant, threshold, Start, denyLedger, denyStore))
    /\ Transcriber(TRUE, FALSE)
    /\ UNCHANGED <<variant, threshold, text, OVERRIDE_DICT>>

ReverseNext ==
    \/ \E t \in Texts : EnterText(t, "missing", FALSE, FALSE)
    \/ AcceptAll(FALSE, FALSE, FALSE)
    \/ \E i \in 1..Len(word_results) : ForceSave(i, FALSE, FALSE)
    \/ ClearAll(FALSE, FALSE)
    \/ \E t \in TeachInputs : Teach(t[1], t[2], t[3], FALSE, FALSE)
    \/ \E p \in LookupIpas, d \in DialectPrefs : LookUp(p, d, FALSE, FALSE)
    \/ Refresh(FALSE, FALSE)

ReverseSpec == ReverseInit /\ [][ReverseNext]_vars

\* ------------------------------------------------ the engine used directly
\* process_text and reconstruct_sentence called as functions, the way
\* simple_diagnostic.py calls process_text: the module has loaded
\* OVERRIDE_DICT, espeak-ng is in some condition, a text is resolved, the
\* caller changes 'selected' and 'correction' as the pages do, and the
\* sentence is put together.
CoreTexts ==
    { << <<"d", "a", "n", "c", "e">> >>,
      << <<"C", "a", "t">>, <<"-">>, <<"d", "a", "n", "c", "e", ".">> >>,
      << <<"c", "a", "r">>, <<"o", "n">> >>,
      << <<"n", "e", "a", "r">>, <<"c", "a", "r", "e">> >>,
      << <<"T", "h", "e">>, <<"c", "a", "t">>, <<"s", "a", "t">>, <<"o", "n">>,
         <<"t", "h", "e">>, <<"m", "a", "t">> >> }

\* What override_dict.json held when ipa_converter was imported.
CoreOverrides ==
    { EmptyDict, DictSet(EmptyDict, <<"d", "a", "n", "c", "e">>, <<"d", "a", ":", "n", "s">>) }

\* What the caller stores as a correction; the second holds a space.
CoreCorrections == { <<"d", "a", ":", "n", "s">>, <<"d", "a", " ", "n", "s">> }

CoreInit ==
    /\ variant = "app"
    /\ threshold = DefaultThreshold(variant)
    /\ text = <<>>
    /\ OVERRIDE_DICT = EmptyDict
    /\ ledger = <<>>
    /\ store = EmptyDict
    /\ log = <<>>
    /\ word_results = <<>>
    /\ calls = <<>>
    /\ raised = FALSE
    /\ op = "start"
    /\ steps = 0
    /\ custom_dict = <<>>
    /\ ipa_to_word_dict = EmptyIndex
    /\ lookup = Looked(EmptyIndex, <<>>, "Any")
    /\ writers = <<>>
    /\ word_to_ipa_dict = IF variant = "hce" THEN load_word_resources(custom_dict) ELSE EmptyIndex
    /\ \E t \in CoreTexts, o \in CoreOverrides, e \in EspeakRuns : core = CoreIdle(t, o, e)

\* One more step of the direct use, named o; the apps stand still.
CoreStep(o) ==
    /\ steps < MaxSteps
    /\ steps' = steps + 1
    /\ op' = o
    /\ UNCHANGED <<variant, threshold, text, OVERRIDE_DICT, ledger, store, log,
                   word_results, calls, raised, custom_dict, ipa_to_word_dict, lookup,
                   writers, word_to_ipa_dict>>

\* results = process_text(text)
CoreResolve ==
    /\ CoreStep("resolve")
    /\ ~core.resolved
    /\ core' = [core EXCEPT !.results = process_text(core.text, core.overrides, core.espeak),
                            !.resolved = TRUE]

\* word_data['selected'] = selected_option, one of the candidates of a token
\* the page shows a radio for.
CoreSelect(i, k) ==
    /\ CoreStep("select")
    /\ i \in 1..Len(core.results)
    /\ HasRadio(core.results[i])
    /\ k \in 1..Len(core.results[i].ipa_options)
    /\ core.results[i].ipa_options[k] # core.results[i].selected
    /\ core' = [core EXCEPT !.results[i].selected = core.results[i].ipa_options[k]]

\* word_data['correction'] = correction if correction else None, for a
\* token the page shows a correction box for.
CoreCorrect(i, c) ==
    /\ CoreStep("correct")
    /\ i \in 1..Len(core.results)
    /\ Rendered(core.results[i])
    /\ (IF c = <<>> THEN NONE ELSE c) # core.results[i].correction
    /\ core' = [core EXCEPT !.results[i].correction = IF c = <<>> THEN NONE ELSE c]

\* full_ipa = reconstruct_sentence(results)
CoreAssemble ==
    /\ CoreStep("assemble")
    /\ core.resolved
    /\ core' = [core EXCEPT !.full_ipa = reconstruct_sentence(core.results)]

CoreNext ==
    \/ CoreResolve
    \/ \E i \in 1..Len(core.results) :
           \E k \in 1..Len(core.results[i].ipa_options) : CoreSelect(i, k)
    \/ \E i \in 1..Len(core.results), c \in CoreCorrections \cup {<<>>} : CoreCorrect(i, c)
    \/ CoreAssemble

CoreSpec == CoreInit /\ [][CoreNext]_vars

\* ------------------------------------------ several server processes
\* Two streamlit server processes run in one working directory; each runs
\* one auto_learn_from_selection call, and the operating system interleaves
\* their file operations.
Procs == {1, 2}

\* The words the two calls are about, with the IPA the user chose.
RaceWords == {<<"c", "a", "t">>, <<"d", "a", "n", "c", "e">>, <<"t", "h", "e">>}

\* The radio's first option for a word.
RaceChoice(word) == fallback_mappings(word)[1]

\* A call before its first file operation.
Writer(word) ==
    [pc |-> "replay", word_data |-> [original |-> word, clean |-> word],
     selected_option |-> RaceChoice(word), count |-> 0, total_selections |-> 0,
     confidence |-> FinalConfidence(1, 1, 10), override_dict |-> EmptyDict,
     result |-> "running", alone |-> TRUE, dump_order |-> 0]

\* The files of a session in which nothing was rendered.
Files(l, s) == [ledger |-> l, store |-> s, log |-> <<>>, wr |-> <<>>, calls |-> <<>>, raised |-> FALSE]

\* The ledger an earlier session left: under app.py and app_enhanced.py one
\* selection of each word (a promotion needs two), under app_hce.py none.
RaceLedger(v, w1, w2) ==
    IF v = "hce" THEN <<>>
    ELSE auto_learn_from_selection(v, DefaultThreshold(v),
             auto_learn_from_selection(v, DefaultThreshold(v), Files(<<>>, EmptyDict),
                 [original |-> w1, clean |-> w1], RaceChoice(w1), "selection", FALSE, FALSE),
             [original |-> w2, clean |-> w2], RaceChoice(w2), "selection", FALSE, FALSE).ledger

\* override_dict.json as earlier promotions left it.
RaceStores == {EmptyDict, DictSet(EmptyDict, <<"c", "a", "r">>, fallback_mappings(<<"c", "a", "r">>)[1])}

RaceInit ==
    /\ variant \in Variants
    /\ threshold = DefaultThreshold(variant)
    /\ text = <<>>
    /\ OVERRIDE_DICT = EmptyDict
    /\ log = <<>>
    /\ word_results = <<>>
    /\ calls = <<>>
    /\ raised = FALSE
    /\ op = "start"
    /\ steps = 0
    /\ core = CoreIdle(<<>>, EmptyDict, "missing")
    /\ custom_dict = <<>>
    /\ ipa_to_word_dict = EmptyIndex
    /\ lookup = Looked(EmptyIndex, <<>>, "Any")
    /\ word_to_ipa_dict = EmptyIndex
    /\ store \in RaceStores
    /\ \E w1, w2 \in RaceWords :
           /\ w1 # w2
           /\ ledger = RaceLedger(variant, w1, w2)
           /\ writers = [p \in Procs |-> Writer(IF p = 1 THEN w1 ELSE w2)]

\* Another process is between its first and its last file operation.
OthersBusy(p) == \E q \in Procs \ {p} : writers[q].pc \notin {"replay", "done"}

\* One file operation of process p, named o.
RaceStep(p, o) ==
    /\ op' = o
    /\ UNCHANGED <<variant, threshold, text, OVERRIDE_DICT, log, word_results, calls,
                   raised, steps, core, custom_dict, ipa_to_word_dict, lookup,
                   word_to_ipa_dict>>

\* The call of p after a step that sets its fields to w.
Stepped(p, w) == [writers EXCEPT ![p] = [w EXCEPT !.alone = writers[p].alone /\ ~OthersBusy(p)]]

\* The replay loop reads the ledger; the counts and the confidence follow.
RaceReplay(p) ==
    /\ RaceStep(p, "replay")
    /\ writers[p].pc = "replay"
    /\ \E c \in {ReplayCount(ledger, writers[p].word_data.clean, writers[p].selected_option) + 1} :
       \E t \in {ReplayTotal(ledger, writers[p].word_data.clean) + 1} :
           writers' = Stepped(p, [writers[p] EXCEPT !.pc = "log", !.count = c,
                                     !.total_selections = t,
                                     !.confidence = FinalConfidence(c, t, Multiplier(variant, "selection"))])
    /\ UNCHANGED <<ledger, store>>

\* The log entry is appended; the promotion test follows.
RaceLog(p) ==
    /\ RaceStep(p, "log")
    /\ writers[p].pc = "log"
    /\ ledger' = Append(ledger, LogEntry(variant, writers[p].word_data, writers[p].selected_option,
                                         "selection", writers[p].confidence, writers[p].count,
                                         writers[p].total_selections))
    /\ writers' = Stepped(p, IF ShouldPromote(variant, threshold, writers[p].confidence,
                                              writers[p].count, "selection")
                             THEN [writers[p] EXCEPT !.pc = "load"]
                             ELSE [writers[p] EXCEPT !.pc = "done", !.result = "False"])
    /\ UNCHANGED store

\* override_dict = json.load(f); a file json.load rejects leaves {}.
RaceLoad(p) ==
    /\ RaceStep(p, "load")
    /\ writers[p].pc = "load"
    /\ writers' = Stepped(p, [writers[p] EXCEPT !.pc = "open", !.override_dict = store])
    /\ UNCHANGED <<ledger, store>>

\* open("override_dict.json", "w") truncates the file: until the dump it
\* is empty, which json.load rejects and the reader takes as {}.
RaceOpen(p) ==
    /\ RaceStep(p, "open")
    /\ writers[p].pc = "open"
    /\ store' = EmptyDict
    /\ writers' = Stepped(p, [writers[p] EXCEPT !.pc = "dump"])
    /\ UNCHANGED ledger

\* An update that writes the new entry alone.
DumpedAlone(w) == DictSetAlone(w.override_dict, w.word_data.clean, w.selected_option)

\* override_dict[clean_word] = selected_option, as json.dump writes it.
Dumped(w) == DictSet(w.override_dict, w.word_data.clean, w.selected_option)

\* json.dump(override_dict, f); return True
RaceDump(p) ==
    /\ RaceStep(p, "dump")
    /\ writers[p].pc = "dump"
    /\ store' = Dumped(writers[p])
    /\ writers' = Stepped(p, [writers[p] EXCEPT !.pc = "done", !.result = "True",
                                 !.dump_order = 1 + Cardinality({q \in Procs : writers[q].dump_order > 0})])
    /\ UNCHANGED ledger

RaceNext ==
    \E p \in Procs :
        \/ RaceReplay(p)
        \/ RaceLog(p)
        \/ RaceLoad(p)
        \/ RaceOpen(p)
        \/ RaceDump(p)

RaceSpec == RaceInit /\ [][RaceNext]_vars

\* ------------------------------------------ a user who keeps selecting
\* The word the user works on and its two options on the radio.
KeepWord == [original |-> <<"d", "a", "n", "c", "e">>, clean |-> <<"d", "a", "n", "c", "e">>]

KeepOptions == fallback_mappings(KeepWord.clean)

\* The ledger and store app.py leaves after the selections picks[1..k],
\* each one call of auto_learn_from_selection.
RECURSIVE History(_, _, _)
History(t, picks, k) ==
    IF k = 0 THEN Files(<<>>, EmptyDict)
    ELSE auto_learn_from_selection("app", t, History(t, picks, k - 1), KeepWord,
                                   KeepOptions[picks[k]], "selection", FALSE, FALSE)

\* The earlier selections of the word: which option each one picked.
PriorPicks == UNION {[1..n -> 1..Len(KeepOptions)] : n \in 0..MaxPrior}

\* The selections the model follows: enough for a threshold of 0.9 to be
\* met after MaxPrior selections of the other option.
KeepCap == 10 * MaxPrior

KeepInit ==
    /\ variant = "app"
    /\ threshold \in SliderRange(variant)
    /\ text = <<KeepWord.original>>
    /\ OVERRIDE_DICT = EmptyDict
    /\ log = <<>>
    /\ word_results = <<>>
    /\ calls = <<>>
    /\ raised = FALSE
    /\ op = "start"
    /\ steps = 0
    /\ core = CoreIdle(<<>>, EmptyDict, "missing")
    /\ custom_dict = <<>>
    /\ ipa_to_word_dict = EmptyIndex
    /\ lookup = Looked(EmptyIndex, <<>>, "Any")
    /\ writers = <<>>
    /\ word_to_ipa_dict = IF variant = "hce" THEN load_word_resources(custom_dict) ELSE EmptyIndex
    /\ \E picks \in PriorPicks :
           /\ ledger = History(threshold, picks, Len(picks)).ledger
           /\ store = History(threshold, picks, Len(picks)).store

\* The radio's on_change callback once more: a selection event of the
\* first option.
KeepSelecting ==
    /\ Len(ledger) < KeepCap
    /\ \E r \in {auto_learn_from_selection(variant, threshold, Files(ledger, store), KeepWord,
                                           KeepOptions[1], "selection", FALSE, FALSE)} :
           /\ ledger' = r.ledger
           /\ store' = r.store
           /\ calls' = r.calls
    /\ op' = "choose"
    /\ steps' = steps + 1
    /\ UNCHANGED <<variant, threshold, text, OVERRIDE_DICT, log, word_results, raised,
                   core, custom_dict, ipa_to_word_dict, lookup, writers, word_to_ipa_dict>>

KeepNext == KeepSelecting

\* The user never stops: weak fairness of the one action.
KeepSpec == KeepInit /\ [][KeepNext]_vars /\ WF_vars(KeepSelecting)

\* --------------------------------------------- texts that repeat a word
\* Texts in which one clean word occurs twice, and one in which none does.
RepeatTexts ==
    { << <<"c", "a", "t">>, <<"c", "a", "t">> >>,
      << <<"C", "a", "t">>, <<"d", "a", "n", "c", "e">>, <<"c", "a", "t">> >>,
      << <<"d", "a", "n", "c", "e">>, <<"c", "a", "t">> >> }

\* The apps on these texts, every write permitted.
RepeatNext ==
    \/ \E t \in RepeatTexts, e \in {"ok", "missing"} : EnterText(t, e, FALSE, FALSE)
    \/ \E i \in 1..Len(word_results) :
           \E opt \in {word_results[i].ipa_options[k] :
                          k \in 1..Len(word_results[i].ipa_options)} :
               ChooseOption(i, opt, FALSE, FALSE)
    \/ AcceptAll(FALSE, FALSE, FALSE)
    \/ ClearAll(FALSE, FALSE)

RepeatSpec == Init /\ [][RepeatNext]_vars

\* ------------------------------------------------------------- the claims
\* The steps that resolve a text (process_text runs).
ResolveOps == {"enter_text", "reset"}

\* The parsed event lines of word w in ledger l.
EventsOf(l, w) == {k \in 1..Len(l) : l[k].parses /\ l[k].word = w}

AllParse(l) == \A k \in 1..Len(l) : l[k].parses

\* The step ran exactly one call of auto_learn_from_selection, and that call
\* replayed the ledger as it was before the step.
OneCall == Len(calls') = 1 /\ op' # "clear_all"

\* C1: after a call (or force-save) of this process has written word -> ipa
\* to the Override Store, the next resolve of a text with that word returns,
\* for that token, has_override = true and selected = ipa.  An entry of the
\* store that OVERRIDE_DICT lacks or holds differently was written after
\* the process started.
C1_ReadAfterWrite ==
    [][op' \in ResolveOps =>
          \A i \in 1..Len(word_results') :
              (/\ word_results'[i].clean \in DOMAIN store
               /\ \/ word_results'[i].clean \notin DOMAIN OVERRIDE_DICT
                  \/ OVERRIDE_DICT[word_results'[i].clean]
                         # store[word_results'[i].clean])
              => /\ word_results'[i].has_override
                 /\ word_results'[i].selected = store[word_results'[i].clean]]_vars

\* C2: whenever the Override Store holds an entry e for a clean word, every
\* resolve of a token with that clean form returns the candidate list <<e>>,
\* selected = e and has_override = true.
C2_StoreEntryIsSoleCandidate ==
    [][op' \in ResolveOps =>
          \A i \in 1..Len(word_results') :
              word_results'[i].clean \in DOMAIN store
              => /\ word_results'[i].ipa_options = <<store[word_results'[i].clean]>>
                 /\ word_results'[i].selected = store[word_results'[i].clean]
                 /\ word_results'[i].has_override]_vars

\* C3: only clear-all removes an entry of the Override Store: every other
\* step (Manual Save included) keeps every word that has an entry.
C3_OnlyClearAllRemoves ==
    [][op' # "clear_all" => DOMAIN store \subseteq DOMAIN store']_vars

\* C4: the resolve that follows a clear-all in the same process returns no
\* token with has_override = true.
C4_AbsentAfterClearAll ==
    [][op = "clear_all" /\ op' \in ResolveOps =>
          \A i \in 1..Len(word_results') : ~word_results'[i].has_override]_vars

\* The steps whose only writes to the Override Store are those of the calls
\* of auto_learn_from_selection.
RecordOps == {"enter_text", "reset", "choose", "type", "accept_all", "threshold"}

\* C5: a call for word w never deletes an entry of the Override Store, never
\* changes the entry of another word, and leaves the store as it is when it
\* does not promote, however low the confidence it computed.
C5_ForgettingFree ==
    [][op' \in RecordOps =>
          /\ DOMAIN store \subseteq DOMAIN store'
          /\ \A w \in DOMAIN store' :
                 (w \notin DOMAIN store \/ store'[w] # store[w])
                 => \E k \in 1..Len(calls') :
                        /\ calls'[k].word = w
                        /\ calls'[k].result = "True"
                        /\ calls'[k].ipa = store'[w]
          /\ (\A k \in 1..Len(calls') : calls'[k].result # "True")
             => store' = store]_vars

\* A call for a word that has an entry computed a confidence below the
\* threshold and did not promote, and the entry is still there.
C5_Witness ==
    /\ op \in RecordOps
    /\ \E k \in 1..Len(calls) :
           /\ calls[k].result = "False"
           /\ calls[k].word \in DOMAIN store
           /\ store[calls[k].word] # calls[k].ipa
           /\ ~AtLeast(calls[k].confidence, threshold)

\* C6: the confidence every call computes and logs is greater than 0 and at
\* most 1.
C6_ConfidenceInUnitInterval ==
    /\ \A k \in 1..Len(calls) :
           /\ calls[k].confidence.num > 0
           /\ calls[k].confidence.num <= calls[k].confidence.den
    /\ \A k \in 1..Len(ledger) :
           ledger[k].parses
           => /\ ledger[k].confidence.num > 0
              /\ ledger[k].confidence.num <= ledger[k].confidence.den

\* A call whose base confidence times its multiplier exceeds 1 and whose
\* confidence is 1, and was logged.
C6_Witness ==
    \E k \in 1..Len(calls) :
        /\ calls[k].count * Multiplier(variant, calls[k].type) > calls[k].total * 10
        /\ calls[k].confidence.num = calls[k].confidence.den
        /\ calls[k].logged
        /\ \E j \in 1..Len(ledger) :
               /\ ledger[j].parses
               /\ ledger[j].word = calls[k].word
               /\ ledger[j].confidence = calls[k].confidence

\* C7: a call writes the chosen IPA to the Override Store and returns true
\* exactly when confidence >= threshold and count >= min-repeats (2, in
\* app_hce.py 1), or in app_hce.py when the interaction is a manual
\* correction or an accept-all; else it returns false and writes nothing.
C7_PromotionRule ==
    \A k \in 1..Len(calls) :
        IF \/ /\ AtLeast(calls[k].confidence, threshold)
              /\ calls[k].count >= (IF variant = "hce" THEN 1 ELSE 2)
           \/ /\ variant = "hce"
              /\ calls[k].type \in {"manual_correction", "accept_all"}
        THEN calls[k].result = "True" /\ calls[k].wrote
        ELSE calls[k].result = "False" /\ ~calls[k].wrote

\* The first selection of a word the ledger has no event of.
TieFirst ==
    /\ OneCall
    /\ calls'[1].type = "selection"
    /\ AllParse(ledger)
    /\ EventsOf(ledger, calls'[1].word) = {}

\* The selection that follows it, of another IPA of the same word.
TieSecond ==
    /\ OneCall
    /\ calls'[1].type = "selection"
    /\ AllParse(ledger)
    /\ \E k \in 1..Len(ledger) :
           /\ EventsOf(ledger, calls'[1].word) = {k}
           /\ ledger[k].interaction_type = "selection"
           /\ ledger[k].ipa_choice # calls'[1].ipa

C9_CorruptLineSkipped ==
    [][OneCall /\ Cardinality({k \in 1..Len(ledger) : ~ledger[k].parses}) = 1 =>
          /\ calls'[1].count =
                 Cardinality({k \in EventsOf(ledger, calls'[1].word) :
                                 ledger[k].ipa_choice = calls'[1].ipa}) + 1
          /\ calls'[1].total =
                 Cardinality(EventsOf(ledger, calls'[1].word)) + 1]_vars

\* C10: no call raises when a file write is refused.
C10_NoCallRaises ==
    \A k \in 1..Len(calls) : calls[k].result # "raised"
\* The tokens of the direct use that went through the synthesizer and the
\* fallback: word tokens without an entry in OVERRIDE_DICT.
CoreWords ==
    {i \in 1..Len(core.results) :
        /\ ~core.results[i].has_override
        /\ IsAlnum(Replace(core.results[i].clean, <<"'">>, <<>>))}

NoDuplicates(seq) == \A i, j \in 1..Len(seq) : seq[i] = seq[j] => i = j

\* seq without the later copies of its elements.
FirstSeen(seq) ==
    LET keep == {i \in 1..Len(seq) : \A j \in 1..(i - 1) : seq[j] # seq[i]}
        nth(n) == CHOOSE i \in keep : Cardinality({j \in keep : j < i}) = n - 1
    IN  [n \in 1..Cardinality(keep) |-> seq[nth(n)]]

\* The synthesizer's output for token i as a candidate, if it gave one.
SynthCandidate(i) ==
    LET out == get_ipa_espeak(core.results[i].clean, core.espeak)
    IN  IF Truthy(out)
        THEN << ApplyHCE(Replace(Replace(out, <<"_">>, <<>>), <<" ">>, <<>>)) >>
        ELSE <<>>

\* The phoneme-mapped entries get_ipa_fallback gives for token i.
LaterCandidates(i) ==
    LET fb == get_ipa_fallback(core.results[i].clean)
    IN  [k \in 1..Len(fb) |-> ApplyHCE(fb[k])]

\* C11: every token of a resolved text, whatever the synthesizer did and
\* whether or not the word is in the fallback table, has a candidate list
\* that is not empty and holds no string twice; for a word it is the
\* synthesizer's candidate followed by the mapped fallback entries with the
\* later copies removed, in first-seen order.
C11_CandidatesDistinct ==
    /\ core.resolved => Len(core.results) = Len(core.text)
    /\ \A i \in 1..Len(core.results) :
           /\ Len(core.results[i].ipa_options) >= 1
           /\ NoDuplicates(core.results[i].ipa_options)
    /\ \A i \in CoreWords :
           core.results[i].ipa_options = FirstSeen(SynthCandidate(i) \o LaterCandidates(i))

\* The synthesizer's candidate for "dance" equals a mapped fallback entry,
\* and the list holds it once.
C11_Witness ==
    /\ core.resolved
    /\ core.espeak = "ok"
    /\ \E i \in CoreWords :
           /\ core.results[i].clean = <<"d", "a", "n", "c", "e">>
           /\ InSeq(SynthCandidate(i)[1], LaterCandidates(i))
           /\ core.results[i].ipa_options =
                  << <<"d", "{", ":", ":", "n", "s">>, <<"d", "A", ":", ":", "n", "s">> >>

\* The choice for one token as the assembler is described: the correction
\* if there is one, else the selected value if there is one, else the
\* first candidate.
PickOf(result) ==
    IF result.correction # NONE THEN result.correction
    ELSE IF result.selected # NONE THEN result.selected
    ELSE result.ipa_options[1]

\* The first n of parts, with one space between neighbours.
RECURSIVE SpacedUpTo(_, _)
SpacedUpTo(parts, n) ==
    IF n = 0 THEN <<>>
    ELSE IF n = 1 THEN parts[1]
    ELSE SpacedUpTo(parts, n - 1) \o <<" ">> \o parts[n]

\* How many parts s.split(" ") has.
SpaceParts(s) == Cardinality({i \in 1..Len(s) : s[i] = " "}) + 1

\* The assembled sentence is the tokens' choices in token order with one
\* space between neighbours, a non-word token standing for itself.
AssembledFromPicks(c) ==
    /\ c.full_ipa = SpacedUpTo([i \in 1..Len(c.results) |-> PickOf(c.results[i])],
                               Len(c.results))
    /\ \A i \in 1..Len(c.results) :
           ~IsAlnum(Replace(c.results[i].clean, <<"'">>, <<>>))
               => PickOf(c.results[i]) = c.results[i].original

C13_UnmodifiedGivesFirstCandidates ==
    [][(op = "resolve" /\ op' = "assemble") =>
          /\ Len(core'.results) = Len(core'.text)
          /\ core'.full_ipa =
                 SpacedUpTo([i \in 1..Len(core'.results) |-> core'.results[i].ipa_options[1]],
                            Len(core'.results))
          /\ \A i \in 1..Len(core'.results) :
                 clean_word(core'.text[i]) \in DOMAIN core'.overrides
                     => core'.results[i].ipa_options[1]
                            = core'.overrides[clean_word(core'.text[i])]]_vars

\* "Cat - dance." with dance in OVERRIDE_DICT, resolved and put together
\* untouched: the entry stands for "dance.".
C13_Witness ==
    /\ op = "assemble"
    /\ Len(core.results) = 3
    /\ \A i \in 1..3 : core.results[i].correction = NONE
    /\ core.results[3].has_override
    /\ Len(core.results[1].ipa_options) = 1
    /\ core.full_ipa = <<"k", "{", ":", "t", " ", "-", " ", "d", "a", ":", "n", "s">>

\* "The cat sat on the mat" as text.split() gives it.
CatSentence ==
    << <<"T", "h", "e">>, <<"c", "a", "t">>, <<"s", "a", "t">>, <<"o", "n">>,
       <<"t", "h", "e">>, <<"m", "a", "t">> >>

\* C14: "The cat sat on the mat", resolved with an empty override dict and
\* no synthesizer, gives every token in its place, each with exactly one
\* candidate, which is not empty and comes from the fallback table.  (The
\* sentence has six tokens.)
C14_CatSentenceFromTable ==
    (core.resolved /\ core.text = CatSentence /\ core.overrides = EmptyDict
         /\ core.espeak = "missing")
        => /\ Len(core.results) = Len(CatSentence)
           /\ \A i \in 1..Len(core.results) :
                  /\ core.results[i].original = CatSentence[i]
                  /\ Len(core.results[i].ipa_options) = 1
                  /\ core.results[i].ipa_options[1] # <<>>
                  /\ core.results[i].clean \in FallbackWords

\* C17: when espeak-ng is not installed, times out, exits non-zero or
\* prints nothing, every token is still resolved, and a word's candidates
\* are exactly the mapped entries of get_ipa_fallback (table or heuristic),
\* the same list for each of the four failures.
C17_SynthesizerSoftFailure ==
    (core.resolved /\ core.espeak # "ok")
        => /\ Len(core.results) = Len(core.text)
           /\ \A i \in CoreWords :
                  /\ core.results[i].ipa_options = FirstSeen(LaterCandidates(i))
                  /\ core.results[i].ipa_options
                         = process_text(core.text, core.overrides, "missing")[i].ipa_options

\* espeak-ng printed nothing for "sat": the heuristic's candidate alone,
\* not the one a working synthesizer gives.
C17_Witness ==
    /\ core.resolved
    /\ core.espeak = "empty"
    /\ \E i \in CoreWords :
           /\ core.results[i].clean = <<"s", "a", "t">>
           /\ core.results[i].ipa_options = << <<"s", "a", "t">> >>
           /\ ApplyHCE(Replace(EspeakOutput(core.results[i].clean), <<"_">>, <<>>))
                  = <<"s", "{", ":", "t">>

\* C19: for a word that is not in the fallback table and for which the
\* synthesizer gave a result, the candidate list is the synthesizer's
\* candidate alone; the letter-pattern heuristic adds nothing.
C19_HeuristicOnlyAsLastResort ==
    \A i \in CoreWords :
        (core.results[i].clean \notin FallbackWords /\ SynthCandidate(i) # <<>>)
            => core.results[i].ipa_options = SynthCandidate(i)

\* The long low vowels that alternate between dialects: front "{:" and
\* back "A:".
HasLongLowVowel(c) ==
    \E k \in 1..(Len(c) - 1) : c[k] \in {"{", "A"} /\ c[k + 1] = ":"

\* c with the front and back low vowels exchanged.
SwapLowVowel(c) ==
    [k \in 1..Len(c) |-> IF c[k] = "{" THEN "A" ELSE IF c[k] = "A" THEN "{" ELSE c[k]]

\* C20: for every candidate the synthesizer, the table or the heuristic gave
\* that holds an alternating long vowel, the list also holds the variant
\* with that vowel swapped; so a word with one such base candidate has more
\* than one candidate.
C20_DialectVariantsAdded ==
    \A i \in CoreWords :
        LET base == FirstSeen(SynthCandidate(i) \o LaterCandidates(i))
        IN  /\ \A k \in 1..Len(base) :
                   HasLongLowVowel(base[k])
                       => InSeq(SwapLowVowel(base[k]), core.results[i].ipa_options)
            /\ (Len(base) = 1 /\ HasLongLowVowel(base[1]))
                   => Len(core.results[i].ipa_options) > 1

\* The parsed accept_all event lines of word w in ledger l.
AcceptEvents(l, w) ==
    {k \in 1..Len(l) : l[k].parses /\ l[k].word = w /\ l[k].interaction_type = "accept_all"}

\* C18: one Accept All that ran to its end with every ledger append done
\* has added one accept_all event for every token whose clean form is a
\* word and that has a final choice, tokens written with attached
\* punctuation ("dance.") included.
C18_AcceptAllLogsEveryWord ==
    [][(op' = "accept_all" /\ ~raised' /\ \A k \in 1..Len(calls') : calls'[k].logged) =>
          \A i \in 1..Len(word_results') :
              (/\ IsAlnum(Replace(word_results'[i].clean, <<"'">>, <<>>))
               /\ Truthy(FinalChoice(word_results'[i])))
                  => Cardinality(AcceptEvents(ledger', word_results'[i].clean))
                         = Cardinality(AcceptEvents(ledger, word_results'[i].clean)) + 1]_vars

\* C15: when the Override Store maps w to p, the transcriber's index is
\* what a rebuild gives, and p is looked up, the candidates include w.
C15_PromotedWordIsFound ==
    \A w \in DOMAIN store :
        (/\ ~raised
         /\ lookup.ipa_input = store[w]
         /\ ipa_to_word_dict = load_resources(custom_dict))
            => \E k \in 1..Len(lookup.candidates) : lookup.candidates[k].word = w

LongestRule(s, i) ==
    LET rules == {k \in 1..Len(HCE_MAP) : StartsAt(s, HCE_MAP[k][1], i)}
    IN  IF rules = {} THEN 0
        ELSE CHOOSE k \in rules :
                 \A j \in rules : Len(HCE_MAP[k][1]) >= Len(HCE_MAP[j][1])

\* One pass over s from index i: at each place the longest matching rule
\* is applied and its output is not looked at again.
RECURSIVE LongestMatchFrom(_, _)
LongestMatchFrom(s, i) ==
    IF i > Len(s) THEN <<>>
    ELSE IF LongestRule(s, i) = 0 THEN <<s[i]>> \o LongestMatchFrom(s, i + 1)
    ELSE HCE_MAP[LongestRule(s, i)][2]
             \o LongestMatchFrom(s, i + Len(HCE_MAP[LongestRule(s, i)][1]))

\* The strings the sources give for token i before the phoneme mapping.
RawCandidates(i) ==
    LET out == get_ipa_espeak(core.results[i].clean, core.espeak)
    IN  (IF Truthy(out) THEN << Replace(Replace(out, <<"_">>, <<>>), <<" ">>, <<>>) >>
         ELSE <<>>) \o get_ipa_fallback(core.results[i].clean)

\* C21: every candidate of a word is its source string mapped longest match
\* first and without overlap: a longer source symbol is rewritten by its
\* own rule only, and the output of a rule is never rewritten again.
C21_LongestMatchMapping ==
    \A i \in CoreWords :
        core.results[i].ipa_options =
            FirstSeen([k \in 1..Len(RawCandidates(i)) |-> LongestMatchFrom(RawCandidates(i)[k], 1)])

\* The entry the index holds for a taught or stored pronunciation.
UserEntry(word, dialect) ==
    [word |-> word, dialect |-> dialect, source |-> "user", is_custom |-> TRUE]

\* C22: whatever was loaded and taught, no IPA key of the reverse index
\* holds the same (word, dialect, source, is_custom) entry twice, and every
\* entry of custom_dict.json and of the built-in dictionaries is there,
\* entries that differ in a field side by side.
C22_IndexDedupedOnFullTuple ==
    /\ \A p \in DOMAIN ipa_to_word_dict : NoDuplicates(ipa_to_word_dict[p])
    /\ \A n \in 1..Len(custom_dict) :
           /\ custom_dict[n].ipa \in DOMAIN ipa_to_word_dict
           /\ InSeq(UserEntry(custom_dict[n].word, custom_dict[n].dialect),
                    ipa_to_word_dict[custom_dict[n].ipa])
    /\ \A n \in 1..Len(AusMappings) :
           /\ AusMappings[n][2] \in DOMAIN ipa_to_word_dict
           /\ InSeq([word |-> AusMappings[n][1], dialect |-> "au",
                     source |-> "aus_override", is_custom |-> FALSE],
                    ipa_to_word_dict[AusMappings[n][2]])

\* "cat" was taught twice for one dialect and once for another: the file
\* holds three entries, the index two under that IPA.
C22_Witness ==
    /\ op = "teach"
    /\ ~raised
    /\ Len(custom_dict) = 3
    /\ \E m, n \in 1..3 : m < n /\ custom_dict[m] = custom_dict[n]
    /\ \E m, n \in 1..3 :
           /\ custom_dict[m].word = custom_dict[n].word
           /\ custom_dict[m].dialect # custom_dict[n].dialect
    /\ Len(ipa_to_word_dict[<<"k", "{", ":", "t">>]) = 2

\* Both calls have returned.
RaceOver == writers # <<>> /\ \A p \in Procs : writers[p].pc = "done"

\* The store maps the word of p's call to the IPA of p's call.
Promoted(p) ==
    /\ writers[p].word_data.clean \in DOMAIN store
    /\ store[writers[p].word_data.clean] = writers[p].selected_option

\* C23: two promoting record calls of two processes for two different words,
\* run one after the other, leave both words in the Override Store (and
\* every earlier entry); however they interleave, both return True and the
\* store holds the entry of the call that wrote last.
C23_SerialWritersKeepBoth ==
    RaceOver =>
        /\ \A p \in Procs : writers[p].result = "True"
        /\ \A p \in Procs : writers[p].dump_order = 2 => Promoted(p)
        /\ (\A p \in Procs : writers[p].alone) =>
               /\ \A p \in Procs : Promoted(p)
               /\ \A k \in DOMAIN writers[1].override_dict \cup DOMAIN writers[2].override_dict : k \in DOMAIN store

\* C23: the lost update: both calls returned True after interleaving their
\* read and write of override_dict.json, and the store holds the later
\* writer's entry and nothing else.
C23_Witness ==
    /\ RaceOver
    /\ \A p \in Procs : writers[p].result = "True"
    /\ \E p, q \in Procs :
           /\ writers[p].dump_order = 1 /\ writers[q].dump_order = 2
           /\ ~writers[q].alone
           /\ DOMAIN store = {writers[q].word_data.clean}
           /\ Promoted(q)
           /\ ~Promoted(p)

\* The call appended its event to the ledger.
WasLogged(c) == c.logged

\* The event carries what the call computed, under every key of the event
\* format (the timestamp is left out of the model; a total of 0 stands for
\* an event without the key total_word_selections).
CarriesAllFields(e, c) ==
    /\ e.parses
    /\ e.word = c.word
    /\ e.ipa_choice = c.ipa
    /\ e.interaction_type = c.type
    /\ e.confidence = c.confidence
    /\ e.selection_count = c.count
    /\ e.total_word_selections = c.total
    /\ e.total_word_selections > 0

\* C24: the ledger is append-only: each call that logs appends exactly one
\* event at the end and leaves every earlier event as it was, and the
\* appended event carries word, original_word, ipa_choice, interaction_type,
\* confidence, selection_count and total_word_selections, in every variant.
C24_LedgerAppendOnly ==
    [][op' \in RecordOps =>
          /\ Len(ledger') = Len(ledger) + Len(SelectSeq(calls', WasLogged))
          /\ SubSeq(ledger', 1, Len(ledger)) = ledger
          /\ \A k \in 1..Len(SelectSeq(calls', WasLogged)) :
                 CarriesAllFields(ledger'[Len(ledger) + k], SelectSeq(calls', WasLogged)[k])]_vars

\* C25: a call returns True only if, when it returns, override_dict.json
\* maps its word to its chosen IPA, also when the operating system refuses
\* the write of override_dict.json under app.py.  (No later call of the same
\* step is about the same word, so the store after the step is the store
\* the call left for its word.)
C25_TrueOnlyIfPersisted ==
    op \in RecordOps =>
        \A k \in 1..Len(calls) :
            (/\ calls[k].result = "True"
             /\ \A j \in (k + 1)..Len(calls) : calls[j].word # calls[k].word)
            => /\ calls[k].word \in DOMAIN store
               /\ store[calls[k].word] = calls[k].ipa

\* How many of the first k events of ledger l are about word w and IPA i.
PairEventsUpTo(l, k) == Cardinality({j \in 1..k : l[j].word = l[k].word /\ l[j].ipa_choice = l[k].ipa_choice})

\* How many of the first k events of ledger l are about the word of event k.
WordEventsUpTo(l, k) == Cardinality({j \in 1..k : l[j].word = l[k].word})

\* C26: in a ledger that calls and clear-all alone built (every line
\* parses), each event's selection_count is the number of events of its
\* (word, ipa_choice) pair up to and including it, its total_word_selections
\* the number of events of its word up to and including it, and its
\* confidence min(1, multiplier * selection_count / total_word_selections).
C26_LedgerCountInvariant ==
    AllParse(ledger) =>
        \A k \in 1..Len(ledger) :
            /\ ledger[k].selection_count = PairEventsUpTo(ledger, k)
            /\ ledger[k].total_word_selections = WordEventsUpTo(ledger, k)
            /\ ledger[k].confidence =
                   FinalConfidence(PairEventsUpTo(ledger, k), WordEventsUpTo(ledger, k),
                                   Multiplier(variant, ledger[k].interaction_type))

OtherChosen == \E k \in 1..Len(ledger) : ledger[k].ipa_choice # KeepOptions[1]

C28_AcceptAllNeverPromotesNewWord ==
    [][variant = "app" /\ op' = "accept_all" =>
          \A k \in 1..Len(calls') :
              calls'[k].result = "True" => EventsOf(ledger, calls'[k].word) # {}]_vars

\* The steps that draw the page with no change of a radio or a correction
\* box: the first render after a resolve, and the rerun a move of the
\* slider causes.
DisplayOps == {"enter_text", "reset", "threshold"}

\* C29: drawing a resolved text without a user change appends no event to
\* the ledger and writes nothing to the Override Store, in every variant:
\* neither the first render after the resolve nor a re-render with the same
\* selection records a selection event.
C29_DisplayRecordsNothing ==
    [][op' \in DisplayOps => ledger' = ledger /\ store' = store /\ calls' = <<>>]_vars

\* The words of TeachInputs, lowercased and trimmed.
LowercasedTrimmed == { <<"c", "a", "t">>, <<"k", "a", "t">> }

IsUser(entry) == entry.source = "user"

\* The user-sourced entries of an index, key by key.
UserEntries(index) ==
    [x \in {y \in DOMAIN index : \E n \in 1..Len(index[y]) : IsUser(index[y][n])} |->
        SelectSeq(index[x], IsUser)]

\* C30: every taught triple is in custom_dict.json with its word lowercased
\* and trimmed; find_word_candidates of its IPA, under every dialect
\* preference, holds its entry {word, dialect, source user, is_custom true};
\* word_to_ipa_dict holds its IPA entry under its word; and a transcriber
\* built anew from custom_dict.json has the same user entries in
\* ipa_to_word_dict and in word_to_ipa_dict as the running transcriber.
C30_TeachRoundTrip ==
    /\ \A n \in 1..Len(custom_dict) :
           /\ custom_dict[n].word \in LowercasedTrimmed
           /\ \A pref \in {NoDialect, "au", "us"} :
                  InSeq(UserEntry(custom_dict[n].word, custom_dict[n].dialect),
                        find_word_candidates(ipa_to_word_dict, custom_dict[n].ipa, pref))
           /\ custom_dict[n].word \in DOMAIN word_to_ipa_dict
           /\ InSeq([ipa |-> custom_dict[n].ipa, dialect |-> custom_dict[n].dialect,
                     source |-> "user", is_custom |-> TRUE],
                    word_to_ipa_dict[custom_dict[n].word])
    /\ UserEntries(ipa_to_word_dict) = UserEntries(load_resources(custom_dict))
    /\ UserEntries(word_to_ipa_dict) = UserEntries(load_word_resources(custom_dict))

\* The step that taught cat for us as the third entry of a file that held
\* cat (au) and kat: the word cat has two IPA entries, the IPA three words.
C30_Witness ==
    /\ op = "teach" /\ ~raised
    /\ Len(custom_dict) = 3
    /\ custom_dict[1].dialect = "au" /\ custom_dict[3].dialect = "us"
    /\ custom_dict[1].word = <<"c", "a", "t">> /\ custom_dict[3].word = <<"c", "a", "t">>
    /\ custom_dict[2].word = <<"k", "a", "t">>
    /\ Len(UserEntries(word_to_ipa_dict)[<<"c", "a", "t">>]) = 2
    /\ Len(UserEntries(ipa_to_word_dict)[<<"k", "{", ":", "t">>]) = 3

====
